---- MODULE Spec2Model ----
(***************************************************************************)
(* Scrape / retry subsystem of repotrend.                                 *)
(*                                                                         *)
(* State: the D1 table trending_repos (archive), the KV namespace holding  *)
(* the retry counters (kv), the wall clock (now), and, for every           *)
(* invocation slot, the position and the locals of one running            *)
(* runScrapeWithRetry or runScrapePipeline call.  Every await of the       *)
(* source is one action, so overlapping invocations interleave there.      *)
(***************************************************************************)
EXTENDS Integers, Sequences, FiniteSets, TLC

\* ---------------------------------------------------------------- bounds
NumProcs == 2
MaxTicks == 2
MaxRows == 2
MaxText == 3
MaxRun == 2
MaxBuckets == 3
MaxCount == 7
MaxRepos == 5

\* ------------------------------------------------------ program constants
MAX_RETRIES == 2
RETRY_KV_PREFIX == "scrape_retry:"
RETRY_TTL_SECONDS == 48 * 60 * 60
DAY_SECONDS == 24 * 60 * 60
TICK_SECONDS == 12 * 60 * 60

NONE == "none"
NoDate == -1

Procs == 1..NumProcs
TargetDates == {NoDate, 0}
MaxNow == MaxTicks * TICK_SECONDS
Days == 0..(MaxNow \div DAY_SECONDS)

VARIABLES
    now,         \* wall clock, seconds since the epoch
    archive,     \* rows of trending_repos
    kv,          \* KV namespace: key -> entry
    pc,          \* per invocation: the await it is suspended at
    kind,        \* per invocation: "retry" (runScrapeWithRetry) or "pipeline"
    target,      \* per invocation: targetDate argument of runScrapePipeline
    invokedAt,   \* per invocation: clock when runScrapePipeline was entered
    date,        \* per invocation: local `date` of runScrapeWithRetry
    pdate,       \* per invocation: local `date` of runScrapePipeline
    retryCount,  \* per invocation: local `retryCount`
    html,        \* per invocation: local `html`
    repos,       \* per invocation: local `repos`
    pres,        \* per invocation: ScrapeResult returned by the pipeline
    result,      \* per invocation: RetryAwareScrapeResult
    trace,       \* per invocation: calls made so far, in order
    gapConfirmed,\* history: the days for which a confirmed gap was returned
    afterGap,    \* history: invocation began after a gap was confirmed for its day
    gapLowered, \* history: the days whose counter was put below the limit or deleted after their gap
    call         \* the read-side or library call under way: function, arguments, result

vars == <<now, archive, kv, pc, kind, target, invokedAt, date, pdate, retryCount,
          html, repos, pres, result, trace, gapConfirmed, afterGap,
          gapLowered, call>>

\* ------------------------------------------------------------- dates.ts
todayUTC(t) == t \div DAY_SECONDS

\* --------------------------------------------------------- KV namespace
NoEntry == [present |-> FALSE, value |-> "", writtenAt |-> 0, expiresAt |-> 0]

RetryKey(d) == RETRY_KV_PREFIX \o ToString(d)

KvKeys == {RetryKey(d) : d \in Days}

\* kv.get: null (NONE) for a missing or expired key
KvGet(store, key, t) ==
    IF store[key].present /\ store[key].expiresAt > t THEN store[key].value ELSE NONE

KvPut(store, key, value, ttl, t) ==
    [store EXCEPT ![key] = [present |-> TRUE, value |-> value, writtenAt |-> t,
                           expiresAt |-> t + ttl]]

KvDelete(store, key) == [store EXCEPT ![key] = NoEntry]

\* String(count) and Number(val) on the values the counter takes
String(n) == ToString(n)

IsNumeric(val) == \E n \in 0..(MAX_RETRIES + 2) : ToString(n) = val

Number(val) == CHOOSE n \in 0..(MAX_RETRIES + 2) : ToString(n) = val

getRetryCount(store, d, t) ==
    LET val == KvGet(store, RetryKey(d), t)
    IN  IF val = NONE THEN 0
        ELSE IF IsNumeric(val) THEN Number(val) ELSE 0

setRetryCount_TtlNotInSeconds(store, d, count, t) ==
    KvPut(store, RetryKey(d), String(count), 48, t)

setRetryCount_Increment(store, d, count, t) ==
    KvPut(store, RetryKey(d), String(getRetryCount(store, d, t) + 1),
          RETRY_TTL_SECONDS, t)

setRetryCount_Restart(store, d, count, t) ==
    KvPut(store, RetryKey(d), String(1), RETRY_TTL_SECONDS, t)

setRetryCount(store, d, count, t) ==
    KvPut(store, RetryKey(d), String(count), RETRY_TTL_SECONDS, t)

clearRetryCount_Keep(store, d) == store

clearRetryCount(store, d) == KvDelete(store, RetryKey(d))

\* ------------------------------------------------------------- archive
hasDataForDate_Never(db, d) == FALSE

hasDataForDate(db, d) == \E r \in db : r.trending_date = d

SameKey(r, s) ==
    /\ r.repo_owner = s.repo_owner
    /\ r.repo_name = s.repo_name
    /\ r.trending_date = s.trending_date

InsertOrReplace_NoReplace(db, row) == db \cup {row}

InsertOrReplace_Ignore(db, row) ==
    IF \E r \in db : SameKey(r, row) THEN db ELSE db \cup {row}

InsertOrReplace_ReplaceDay(db, row) ==
    {r \in db : r.trending_date # row.trending_date} \cup {row}

InsertOrReplace_Accumulate(db, row) ==
    LET old == {r \in db : SameKey(r, row)}
    IN  IF old = {} THEN db \cup {row}
        ELSE (db \ old) \cup
             {[row EXCEPT !.total_stars = @ + r.total_stars] : r \in old}

\* INSERT OR REPLACE under UNIQUE (repo_owner, repo_name, trending_date)
InsertOrReplace(db, row) == {r \in db : ~SameKey(r, row)} \cup {row}

\* The bound columns that identify and describe a row (scraped_at is left out).
Row(repo, d) ==
    [repo_owner |-> repo.repo_owner, repo_name |-> repo.repo_name,
     total_stars |-> repo.total_stars, stars_today |-> repo.stars_today,
     trending_date |-> d]

RECURSIVE BatchInsert(_, _, _)
BatchInsert(db, rs, d) ==
    IF rs = <<>> THEN db
    ELSE BatchInsert(InsertOrReplace(db, Row(Head(rs), d)), Tail(rs), d)

\* ------------------------------------------------------ persistRepos
\* A D1Result of the batch: success and meta.changes (<<>>: not reported).
D1Result(success, changes) == [success |-> success, changes |-> changes]

\* What D1 answers when a batch of INSERT OR REPLACE statements commits.
BatchResults(rs) == [i \in 1..Len(rs) |-> D1Result(TRUE, <<1>>)]

\* result.meta.changes ?? 0
ChangesOf(res) == IF res.changes = <<>> THEN 0 ELSE res.changes[1]

RECURSIVE RowsWritten_CountsFailed(_)
RowsWritten_CountsFailed(results) ==
    IF results = <<>> THEN 0
    ELSE ChangesOf(Head(results)) + RowsWritten_CountsFailed(Tail(results))

RECURSIVE RowsWritten(_)
RowsWritten(results) ==
    IF results = <<>> THEN 0
    ELSE (IF Head(results).success THEN ChangesOf(Head(results)) ELSE 0)
         + RowsWritten(Tail(results))

BatchApply_WritesNothing(db, rs, d, results) == db

\* The rows a committed batch leaves: a statement reported unsuccessful wrote none.
RECURSIVE BatchApply(_, _, _, _)
BatchApply(db, rs, d, results) ==
    IF rs = <<>> THEN db
    ELSE BatchApply(IF Head(results).success
                    THEN InsertOrReplace(db, Row(Head(rs), d)) ELSE db,
                    Tail(rs), d, Tail(results))

WrapError_Bare(message) == message

WrapError(message) == "D1 persistence failed: " \o message

\* persistRepos against a batch that rejects with batchError (NONE: it resolves,
\* with `results`).  statements, batches: what was prepared and sent.
persistReposOnBatch_AlwaysBatches(db, rs, d, batchError, results) ==
    IF batchError # NONE
    THEN [db |-> db, threw |-> TRUE, error |-> WrapError(batchError), rowsWritten |-> 0,
          statements |-> Len(rs), batches |-> 1]
    ELSE [db |-> BatchApply(db, rs, d, results), threw |-> FALSE, error |-> NONE,
          rowsWritten |-> RowsWritten(results), statements |-> Len(rs), batches |-> 1]

persistReposOnBatch(db, rs, d, batchError, results) ==
    IF Len(rs) = 0
    THEN [db |-> db, threw |-> FALSE, error |-> NONE, rowsWritten |-> 0,
          statements |-> 0, batches |-> 0]
    ELSE IF batchError # NONE
    THEN [db |-> db, threw |-> TRUE, error |-> WrapError(batchError), rowsWritten |-> 0,
          statements |-> Len(rs), batches |-> 1]
    ELSE [db |-> BatchApply(db, rs, d, results), threw |-> FALSE, error |-> NONE,
          rowsWritten |-> RowsWritten(results), statements |-> Len(rs), batches |-> 1]

\* persistRepos(db, repos, date) on D1: the batch throws as a whole or commits
\* every statement, each reporting one change.
persistRepos(db, rs, d, batchFails) ==
    persistReposOnBatch(db, rs, d, IF batchFails THEN "D1 write timeout" ELSE NONE,
                        BatchResults(rs))

\* ------------------------------------------------------------ parser.ts
\* An article row: its heading link ("link"; "no-href": an <a> without href;
\* "none": no h2 a), the href of that link split at "/", and the numbers its
\* stargazers link and its "stars today" span stand for.
Articles ==
    { [heading |-> "link", href |-> <<"o", "a">>, stars |-> 1, today |-> 1],
      [heading |-> "link", href |-> <<"o", "b">>, stars |-> 1, today |-> 1],
      [heading |-> "link", href |-> <<"x">>, stars |-> 1, today |-> 1] }

Pages == UNION {[1..n -> Articles] : n \in 0..MaxRows}

\* Rows without a heading link, or whose link has no href.
BrokenArticles ==
    { [heading |-> "none", href |-> <<>>, stars |-> 1, today |-> 1],
      [heading |-> "no-href", href |-> <<>>, stars |-> 1, today |-> 1] }

MarkupPages == UNION {[1..n -> Articles \cup BrokenArticles] : n \in 0..MaxRows}

\* parseRepoName returns
ArticleOk(a) == a.heading = "link" /\ Len(a.href) >= 2

parseArticle(a) ==
    [repo_owner |-> a.href[1], repo_name |-> a.href[2], total_stars |-> a.stars,
     stars_today |-> a.today, topics |-> NONE]

ParseOk_AcceptsEmpty(page) == \A i \in 1..Len(page) : ArticleOk(page[i])

ParseOk(page) == Len(page) > 0 /\ \A i \in 1..Len(page) : ArticleOk(page[i])

RECURSIVE Href(_)
Href(parts) == IF parts = <<>> THEN "" ELSE "/" \o Head(parts) \o Href(Tail(parts))

\* What parseRepoName throws for a row it cannot identify
RowError(a) ==
    IF a.heading = "none" THEN "Failed to parse repo: missing heading link"
    ELSE IF a.heading = "no-href" THEN "Failed to parse repo: heading link has no href"
    ELSE "Failed to parse repo name from href: " \o Href(a.href)

NoRowsError ==
    "Failed to parse trending page: no repository rows found. "
    \o "The page structure may have changed."

\* The error of the first row that throws (the rows are mapped in page order)
ParseErrorMessage(page) ==
    IF Len(page) = 0
    THEN NoRowsError
    ELSE LET bad == {i \in 1..Len(page) : ~ArticleOk(page[i])}
         IN  RowError(page[CHOOSE i \in bad : \A k \in bad : i <= k])

parseTrendingPage(page) == [i \in 1..Len(page) |-> parseArticle(page[i])]

\* The call parseTrendingPage(html): the records, or the error thrown.
ParseResult_KeepsGoodRows(page) ==
    [threw |-> FALSE, error |-> NONE,
     repos |-> parseTrendingPage(SelectSeq(page, ArticleOk))]

ParseResult(page) ==
    IF ParseOk(page)
    THEN [threw |-> FALSE, error |-> NONE, repos |-> parseTrendingPage(page)]
    ELSE [threw |-> TRUE, error |-> ParseErrorMessage(page), repos |-> <<>>]

\* ------------------------------------------------------------ topics.ts
TOPICS_FETCH_CONCURRENCY == 4

\* repos.slice(i, i + TOPICS_FETCH_CONCURRENCY), as indices 1..n
ChunkOf_All(i, n) == (i + 1)..n

ChunkOf(i, n) ==
    (i + 1)..(IF i + TOPICS_FETCH_CONCURRENCY < n THEN i + TOPICS_FETCH_CONCURRENCY ELSE n)

\* The records whose callback has not returned: repo.topics is not assigned yet.
Unsettled(rs) == {k \in 1..Len(rs) : rs[k].topics = NONE}

\* The loop index i of the chunk under way; every chunk before it is settled.
ChunkIndex(rs) ==
    LET first == CHOOSE k \in Unsettled(rs) : \A j \in Unsettled(rs) : k <= j
    IN  ((first - 1) \div TOPICS_FETCH_CONCURRENCY) * TOPICS_FETCH_CONCURRENCY

\* Lines 58-60: the requests await Promise.all is waiting for.
Awaited(rs) ==
    IF Unsettled(rs) = {} THEN {}
    ELSE Unsettled(rs) \cap ChunkOf(ChunkIndex(rs), Len(rs))

\* Lines 61-69: the request of record k settles and its callback assigns
\* repo.topics in place: the fetched list, or [] in the catch.
SettleTopics_DropFailed(rs, k, ok) ==
    IF ok THEN [rs EXCEPT ![k].topics = "some"]
    ELSE SubSeq(rs, 1, k - 1) \o SubSeq(rs, k + 1, Len(rs))

SettleTopics(rs, k, ok) == [rs EXCEPT ![k].topics = IF ok THEN "some" ELSE "empty"]

\* failedCount when the loop is over
FailedCount(rs) == Cardinality({k \in 1..Len(rs) : rs[k].topics = "empty"})

\* ---------------------------------------------------------- pipeline.ts
NoResult == [success |-> FALSE, skipped |-> FALSE, skipReason |-> NONE, attempt |-> -1,
             recovered |-> FALSE, repoCount |-> -1, rowsWritten |-> -1, date |-> -1,
             error |-> NONE, errorType |-> NONE]

ScrapeSuccess(d, repoCount, rowsWritten) ==
    [NoResult EXCEPT !.success = TRUE, !.repoCount = repoCount,
                     !.rowsWritten = rowsWritten, !.date = d]

ScrapeFailure(d, message, errorType) ==
    [NoResult EXCEPT !.success = FALSE, !.repoCount = 0, !.rowsWritten = 0, !.date = d,
                     !.error = message, !.errorType = errorType]

PipelineDate_IgnoreTarget(targetDate, t) == todayUTC(t)

PipelineDate(targetDate, t) == IF targetDate = NoDate THEN todayUTC(t) ELSE targetDate

StageAfter_NoEnrich(stage) ==
    CASE stage = "randomDelay" -> "fetchTrendingPage"
      [] stage = "fetchTrendingPage" -> "parseTrendingPage"
      [] stage = "parseTrendingPage" -> "persistRepos"
      [] stage = "enrichReposWithTopics" -> "persistRepos"

StageAfter(stage) ==
    CASE stage = "randomDelay" -> "fetchTrendingPage"
      [] stage = "fetchTrendingPage" -> "parseTrendingPage"
      [] stage = "parseTrendingPage" -> "enrichReposWithTopics"
      [] stage = "enrichReposWithTopics" -> "persistRepos"

ErrorTypeOf_Untagged(stage) == "unknown_error"

ErrorTypeOf(stage) ==
    CASE stage = "fetchTrendingPage" -> "fetch_error"
      [] stage = "parseTrendingPage" -> "parse_error"
      [] stage = "persistRepos" -> "persist_error"
      [] OTHER -> "unknown_error"

\* ------------------------------------------------------------- retry.ts
MaxRetriesExceeded_OffByOne(c) == c > MAX_RETRIES

MaxRetriesExceeded_Never(c) == FALSE

MaxRetriesExceeded(c) == c >= MAX_RETRIES

ReadRetryCount_FailClosed(store, d, t, failed) ==
    IF failed THEN MAX_RETRIES ELSE getRetryCount(store, d, t)

ReadRetryCount(store, d, t, failed) ==
    IF failed THEN 0 ELSE getRetryCount(store, d, t)

Attempt_NoIncrement(c) == c

Attempt(c) == c + 1

Recovered_Always(success, c) == success

Recovered(success, c) == success /\ c > 0

SkipResult(d, reason, success, attempt) ==
    [NoResult EXCEPT !.success = success, !.skipped = TRUE, !.skipReason = reason,
                     !.attempt = attempt, !.repoCount = 0, !.rowsWritten = 0, !.date = d]

RetryResult_PipelineOnly(r, c) == r

RetryResult(r, c) ==
    [r EXCEPT !.skipped = FALSE, !.attempt = Attempt(c), !.recovered = Recovered(r.success, c)]

\* ---------------------------------------------------------------- trace
Event(op, key, value, ttl, n, failed) ==
    [op |-> op, key |-> key, value |-> value, ttl |-> ttl, n |-> n, failed |-> failed]

Call(op, failed) == Event(op, "", "", 0, 0, failed)

Log(p, e) == trace' = [trace EXCEPT ![p] = Append(@, e)]

Has(p, op) == \E i \in 1..Len(trace[p]) : trace[p][i].op = op

HasFailed(p, op) == \E i \in 1..Len(trace[p]) : trace[p][i].op = op /\ trace[p][i].failed

Last(s) == s[Len(s)]

\* ----------------------------------------------------------------- Init
\* No read-side or library call is under way.
NoCall == [fn |-> NONE, done |-> TRUE]

Idle == [p \in Procs |-> "idle"]

\* No invocation of the scraper is running and none has run.
Quiescent ==
    /\ pc = Idle
    /\ kind = [p \in Procs |-> NONE]
    /\ target = [p \in Procs |-> NoDate]
    /\ invokedAt = [p \in Procs |-> 0]
    /\ date = [p \in Procs |-> NoDate]
    /\ pdate = [p \in Procs |-> NoDate]
    /\ retryCount = [p \in Procs |-> 0]
    /\ html = [p \in Procs |-> <<>>]
    /\ repos = [p \in Procs |-> <<>>]
    /\ pres = [p \in Procs |-> NoResult]
    /\ result = [p \in Procs |-> NoResult]
    /\ trace = [p \in Procs |-> <<>>]
    /\ gapConfirmed = {}
    /\ afterGap = [p \in Procs |-> FALSE]
    /\ gapLowered = {}

Init ==
    /\ now = 0
    /\ archive = {}
    /\ kv = [k \in KvKeys |-> NoEntry]
    /\ Quiescent
    /\ call = NoCall

\* ------------------------------------------------- runScrapePipeline
Goto(p, label) == pc' = [pc EXCEPT ![p] = label]

\* The pipeline returns r (its locals are gone): either to the caller of
\* runScrapePipeline, or into runScrapeWithRetry, which goes on to its counter
\* bookkeeping (retry.ts 113-145).
AfterPipeline_AlwaysCounted(k, success, c) ==
    IF success THEN (IF c > 0 THEN "clearRetryCount" ELSE "done") ELSE "setRetryCount"

\* Where a returning pipeline goes on: k is "pipeline" for a direct caller of
\* runScrapePipeline, which has no counter store at all.
AfterPipeline(k, success, c) ==
    IF k = "pipeline" THEN "done"
    ELSE IF success THEN (IF c > 0 THEN "clearRetryCount" ELSE "done")
    ELSE "setRetryCount"

PipelineReturns(p, r) ==
    /\ pres' = [pres EXCEPT ![p] = r]
    /\ html' = [html EXCEPT ![p] = <<>>]
    /\ repos' = [repos EXCEPT ![p] = <<>>]
    /\ LET next == AfterPipeline(kind[p], r.success, retryCount[p])
       IN  /\ Goto(p, next)
           /\ IF next = "done" /\ kind[p] # "pipeline"
              THEN result' = [result EXCEPT ![p] = RetryResult(r, retryCount[p])]
              ELSE UNCHANGED result

\* A new invocation takes the lowest free slot.
FreeSlot(p) == pc[p] = "idle" /\ \A q \in Procs : q < p => pc[q] # "idle"

\* targets: the targetDate arguments of the call; NoDate is its absence.  The
\* date is fixed here, before the first stage (pipeline.ts 32).
StartPipelineOn(p, targets) ==
    /\ FreeSlot(p)
    /\ \E t \in targets :
          /\ target' = [target EXCEPT ![p] = t]
          /\ pdate' = [pdate EXCEPT ![p] = PipelineDate(t, now)]
    /\ kind' = [kind EXCEPT ![p] = "pipeline"]
    /\ invokedAt' = [invokedAt EXCEPT ![p] = now]
    /\ Goto(p, "randomDelay")
    /\ UNCHANGED <<call, now, archive, kv, date, retryCount, html, repos, pres, result,
                   trace, gapConfirmed, afterGap, gapLowered>>

StartPipeline(p) == StartPipelineOn(p, TargetDates)

RandomDelay(p) ==
    /\ pc[p] = "randomDelay"
    /\ \E failed \in BOOLEAN :
          /\ Log(p, Call("randomDelay", failed))
          /\ IF failed
             THEN PipelineReturns(p, ScrapeFailure(pdate[p], "delay rejected",
                                                   ErrorTypeOf("randomDelay")))
             ELSE /\ Goto(p, StageAfter("randomDelay"))
                  /\ UNCHANGED <<pres, result, html, repos>>
    /\ UNCHANGED <<call, now, archive, kv, kind, target, invokedAt, date, pdate, retryCount,
                   gapConfirmed, afterGap, gapLowered>>

\* Stage 1.  pages: the bodies the trending page may answer with.
Fetch(p, pages) ==
    /\ pc[p] = "fetchTrendingPage"
    /\ \E failed \in BOOLEAN :
          /\ Log(p, Call("fetchTrendingPage", failed))
          /\ IF failed
             THEN PipelineReturns(p, ScrapeFailure(pdate[p], "GitHub trending fetch failed",
                                                   ErrorTypeOf("fetchTrendingPage")))
             ELSE /\ \E page \in pages : html' = [html EXCEPT ![p] = page]
                  /\ Goto(p, StageAfter("fetchTrendingPage"))
                  /\ UNCHANGED <<pres, result, repos>>
    /\ UNCHANGED <<call, now, archive, kv, kind, target, invokedAt, date, pdate, retryCount,
                   gapConfirmed, afterGap, gapLowered>>

FetchTrendingPage(p) == Fetch(p, Pages)

\* Stage 2.
ParseTrendingPage(p) ==
    /\ pc[p] = "parseTrendingPage"
    /\ Log(p, Call("parseTrendingPage", ~ParseOk(html[p])))
    /\ IF ParseOk(html[p])
       THEN /\ repos' = [repos EXCEPT ![p] = parseTrendingPage(html[p])]
            /\ Goto(p, StageAfter("parseTrendingPage"))
            /\ UNCHANGED <<pres, result, html>>
       ELSE PipelineReturns(p, ScrapeFailure(pdate[p], ParseErrorMessage(html[p]),
                                             ErrorTypeOf("parseTrendingPage")))
    /\ UNCHANGED <<call, now, archive, kv, kind, target, invokedAt, date, pdate, retryCount,
                   gapConfirmed, afterGap, gapLowered>>

\* Stage 3, request by request (topics.ts 57-72).  The requests of a chunk are
\* outstanding together and settle in any order, each callback catching its
\* own rejection; the requests of the next chunk are sent when Promise.all of
\* this one resolves.  When the last request has settled the call returns the
\* records (no rejection leaves it, so the catch of pipeline.ts 63-65 is never
\* entered) and the run goes on to stage 4.  The parser returns no empty list,
\* so the early return of line 53 is not taken from here.
EnrichReposWithTopics(p) ==
    /\ pc[p] = "enrichReposWithTopics"
    /\ \E k \in Awaited(repos[p]), ok \in BOOLEAN :
          LET after == SettleTopics(repos[p], k, ok)
          IN  /\ repos' = [repos EXCEPT ![p] = after]
              /\ IF Unsettled(after) = {}
                 THEN /\ Log(p, Event("enrichReposWithTopics", "", "", 0,
                                      FailedCount(after), FALSE))
                      /\ Goto(p, StageAfter("enrichReposWithTopics"))
                 ELSE UNCHANGED <<trace, pc>>
    /\ UNCHANGED <<call, now, archive, kv, kind, target, invokedAt, date, pdate, retryCount,
                   html, pres, result, gapConfirmed, afterGap, gapLowered>>

\* Stage 4: persistRepos.  errors: the messages the batch may reject with.
PersistReposOn(p, errors) ==
    /\ pc[p] = "persistRepos"
    /\ \E batchError \in errors \cup {NONE} :
          LET r == persistReposOnBatch(archive, repos[p], pdate[p], batchError,
                                       BatchResults(repos[p]))
          IN  /\ trace' = [trace EXCEPT ![p] =
                     @ \o IF r.batches = 0
                          THEN << Call("persistRepos", FALSE) >>
                          ELSE << Call("persistRepos", r.threw),
                                  Event("db.batch", "",
                                        IF r.threw THEN batchError ELSE "", 0,
                                        r.statements, r.threw) >>]
              /\ archive' = r.db
              /\ PipelineReturns(p,
                     IF r.threw
                     THEN ScrapeFailure(pdate[p], r.error, ErrorTypeOf("persistRepos"))
                     ELSE ScrapeSuccess(pdate[p], Len(repos[p]), r.rowsWritten))
    /\ UNCHANGED <<call, now, kv, kind, target, invokedAt, date, pdate, retryCount,
                   gapConfirmed, afterGap, gapLowered>>

PersistRepos(p) == PersistReposOn(p, {"D1 write timeout"})

\* ------------------------------------------------- runScrapeWithRetry
StartRetry(p) ==
    /\ FreeSlot(p)
    /\ kind' = [kind EXCEPT ![p] = "retry"]
    /\ date' = [date EXCEPT ![p] = todayUTC(now)]
    /\ afterGap' = [afterGap EXCEPT ![p] = todayUTC(now) \in gapConfirmed]
    /\ Goto(p, "hasDataForDate")
    /\ UNCHANGED <<call, now, archive, kv, target, invokedAt, pdate, retryCount, html, repos,
                   pres, result, trace, gapConfirmed, gapLowered>>

\* 1. Skip if data already exists; a failing query propagates out of the function.
HasDataForDate(p) ==
    /\ pc[p] = "hasDataForDate"
    /\ \E failed \in BOOLEAN :
          /\ Log(p, Call("db.first", failed))
          /\ IF failed
             THEN /\ pc' = [pc EXCEPT ![p] = "threw"]
                  /\ UNCHANGED result
             ELSE IF hasDataForDate(archive, date[p])
             THEN /\ pc' = [pc EXCEPT ![p] = "done"]
                  /\ result' = [result EXCEPT ![p] =
                                   SkipResult(date[p], "already_has_data", TRUE, -1)]
             ELSE /\ pc' = [pc EXCEPT ![p] = "getRetryCount"]
                  /\ UNCHANGED result
    /\ UNCHANGED <<call, now, archive, kv, kind, target, invokedAt, date, pdate, retryCount,
                   html, repos, pres, gapConfirmed, afterGap, gapLowered>>

\* 2.-3. Read the counter (fail open), confirm the gap or enter the pipeline.
GetRetryCount(p) ==
    /\ pc[p] = "getRetryCount"
    /\ \E failed \in BOOLEAN :
          LET c == ReadRetryCount(kv, date[p], now, failed)
          IN  /\ Log(p, Event("kv.get", RetryKey(date[p]), "", 0, 0, failed))
              /\ retryCount' = [retryCount EXCEPT ![p] = c]
              /\ IF MaxRetriesExceeded(c)
                 THEN /\ pc' = [pc EXCEPT ![p] = "done"]
                      /\ result' = [result EXCEPT ![p] =
                            [SkipResult(date[p], "max_retries_exceeded", FALSE, c)
                                EXCEPT !.error = "Max retries exceeded"]]
                      /\ gapConfirmed' = gapConfirmed \cup {date[p]}
                      /\ UNCHANGED <<target, invokedAt, pdate>>
                 ELSE /\ pc' = [pc EXCEPT ![p] = "randomDelay"]
                      /\ target' = [target EXCEPT ![p] = date[p]]
                      /\ invokedAt' = [invokedAt EXCEPT ![p] = now]
                      /\ pdate' = [pdate EXCEPT ![p] = PipelineDate(date[p], now)]
                      /\ UNCHANGED <<result, gapConfirmed>>
    /\ UNCHANGED <<call, now, archive, kv, kind, date, html, repos, pres, afterGap,
                   gapLowered>>

\* 5. Success after earlier failures: delete the counter (a failing delete is logged).
ClearRetryCount(p) ==
    /\ pc[p] = "clearRetryCount"
    /\ \E failed \in BOOLEAN :
          /\ Log(p, Event("kv.delete", RetryKey(date[p]), "", 0, 0, failed))
          /\ kv' = IF failed THEN kv ELSE clearRetryCount(kv, date[p])
          /\ gapLowered' = IF ~failed /\ date[p] \in gapConfirmed
                              THEN gapLowered \cup {date[p]} ELSE gapLowered
    /\ result' = [result EXCEPT ![p] = RetryResult(pres[p], retryCount[p])]
    /\ pc' = [pc EXCEPT ![p] = "done"]
    /\ UNCHANGED <<call, now, archive, kind, target, invokedAt, date, pdate, retryCount,
                   html, repos, pres, gapConfirmed, afterGap>>

\* 6. Failure: store attempt under the key with the TTL (a failing put is logged).
SetRetryCount(p) ==
    /\ pc[p] = "setRetryCount"
    /\ \E failed \in BOOLEAN :
          LET after == setRetryCount(kv, date[p], Attempt(retryCount[p]), now)
              key == RetryKey(date[p])
          IN  /\ Log(p, Event("kv.put", key, after[key].value, after[key].expiresAt - now,
                              0, failed))
              /\ kv' = IF failed THEN kv ELSE after
              /\ gapLowered' =
                    IF ~failed /\ date[p] \in gapConfirmed
                               /\ Attempt(retryCount[p]) < MAX_RETRIES
                    THEN gapLowered \cup {date[p]} ELSE gapLowered
    /\ result' = [result EXCEPT ![p] = RetryResult(pres[p], retryCount[p])]
    /\ pc' = [pc EXCEPT ![p] = "done"]
    /\ UNCHANGED <<call, now, archive, kind, target, invokedAt, date, pdate, retryCount,
                   html, repos, pres, gapConfirmed, afterGap>>

\* The caller has the result (or the exception); the slot is free again.
Return(p) ==
    /\ pc[p] \in {"done", "threw"}
    /\ pc' = [pc EXCEPT ![p] = "idle"]
    /\ kind' = [kind EXCEPT ![p] = NONE]
    /\ target' = [target EXCEPT ![p] = NoDate]
    /\ invokedAt' = [invokedAt EXCEPT ![p] = 0]
    /\ date' = [date EXCEPT ![p] = NoDate]
    /\ pdate' = [pdate EXCEPT ![p] = NoDate]
    /\ retryCount' = [retryCount EXCEPT ![p] = 0]
    /\ html' = [html EXCEPT ![p] = <<>>]
    /\ repos' = [repos EXCEPT ![p] = <<>>]
    /\ pres' = [pres EXCEPT ![p] = NoResult]
    /\ result' = [result EXCEPT ![p] = NoResult]
    /\ trace' = [trace EXCEPT ![p] = <<>>]
    /\ afterGap' = [afterGap EXCEPT ![p] = FALSE]
    /\ UNCHANGED <<call, now, archive, kv, gapConfirmed, gapLowered>>

\* Twelve hours pass (the cron fires at 06:00 and 18:00 UTC).
Tick ==
    /\ now + TICK_SECONDS <= MaxNow
    /\ now' = now + TICK_SECONDS
    /\ UNCHANGED <<call, archive, kv, pc, kind, target, invokedAt, date, pdate, retryCount,
                   html, repos, pres, result, trace, gapConfirmed, afterGap, gapLowered>>

Step(p) ==
    \/ RandomDelay(p)
    \/ FetchTrendingPage(p)
    \/ ParseTrendingPage(p)
    \/ EnrichReposWithTopics(p)
    \/ PersistRepos(p)
    \/ HasDataForDate(p)
    \/ GetRetryCount(p)
    \/ ClearRetryCount(p)
    \/ SetRetryCount(p)
    \/ Return(p)

\* The invocation steps, with the trending page answering from `pages`.
StepOn(p, pages) ==
    \/ RandomDelay(p)
    \/ Fetch(p, pages)
    \/ ParseTrendingPage(p)
    \/ EnrichReposWithTopics(p)
    \/ PersistRepos(p)
    \/ HasDataForDate(p)
    \/ GetRetryCount(p)
    \/ ClearRetryCount(p)
    \/ SetRetryCount(p)
    \/ Return(p)

Quiet == \A q \in Procs : pc[q] = "idle"

\* The scheduler and the callers of runScrapePipeline invoke one call at a time.
ScheduledRun(p) == Quiet /\ StartRetry(p)

DirectRun(p) == Quiet /\ StartPipeline(p)

Next ==
    \/ \E p \in Procs : ScheduledRun(p)
    \/ \E p \in Procs : DirectRun(p)
    \/ \E p \in Procs : Step(p)
    \/ Tick

Spec == Init /\ [][Next]_vars

\* Overlapping scheduled runs within one cron slot (no mutual exclusion on the
\* counter); the page has at most one row.
ShortPages == {page \in Pages : Len(page) <= 1}

NextOverlap ==
    \/ \E p \in Procs : StartRetry(p)
    \/ \E p \in Procs : StepOn(p, ShortPages)

OverlapSpec == Init /\ [][NextOverlap]_vars

\* Overlapping scheduled runs within each cron slot of a day and of the next
\* day; the invocations of a slot have returned when the next slot begins.
\* The trending page lists one repository, or one row without a repository name.
GapPages ==
    { << [heading |-> "link", href |-> <<"o", "a">>, stars |-> 1, today |-> 1] >>,
      << [heading |-> "link", href |-> <<"x">>, stars |-> 1, today |-> 1] >> }

NextGap ==
    \/ \E p \in Procs : StartRetry(p)
    \/ \E p \in Procs : StepOn(p, GapPages)
    \/ Quiet /\ Tick

GapSpec == Init /\ [][NextGap]_vars

\* Pipeline runs that meet in the archive: the trending page changes between
\* the runs' fetches (o/a gains a star, o/b leaves the list).
RerunPages ==
    { << [heading |-> "link", href |-> <<"o", "a">>, stars |-> 1, today |-> 1],
         [heading |-> "link", href |-> <<"o", "b">>, stars |-> 1, today |-> 1] >>,
      << [heading |-> "link", href |-> <<"o", "a">>, stars |-> 2, today |-> 2] >>,
      << [heading |-> "link", href |-> <<"o", "a">>, stars |-> 1, today |-> 1] >> }

NextRerun ==
    \/ \E p \in Procs : StartRetry(p)
    \/ \E p \in Procs : StartPipeline(p)
    \/ \E p \in Procs : StepOn(p, RerunPages)

RerunSpec == Init /\ [][NextRerun]_vars

\* Runs, one at a time, whose batch may reject with either message: an Error's
\* message, or a thrown non-Error value turned into a string.
BatchErrors == {"D1 write timeout", "unknown failure"}

StepOnErrors(p) ==
    \/ RandomDelay(p)
    \/ Fetch(p, RerunPages)
    \/ ParseTrendingPage(p)
    \/ EnrichReposWithTopics(p)
    \/ PersistReposOn(p, BatchErrors)
    \/ HasDataForDate(p)
    \/ GetRetryCount(p)
    \/ ClearRetryCount(p)
    \/ SetRetryCount(p)
    \/ Return(p)

NextBatchError ==
    \/ \E p \in Procs : ScheduledRun(p)
    \/ \E p \in Procs : DirectRun(p)
    \/ \E p \in Procs : StepOnErrors(p)

BatchErrorSpec == Init /\ [][NextBatchError]_vars

\* ------------------------------------------------------- persistence.ts
scrapeVars == <<pc, kind, target, invokedAt, date, pdate, retryCount, html, repos,
                pres, result, trace, gapConfirmed, afterGap, gapLowered>>

\* Parsed records as the parser hands them over, with differing star counts.
ParsedRepos ==
    { [repo_owner |-> "o", repo_name |-> "a", total_stars |-> 1, stars_today |-> 1,
       topics |-> NONE],
      [repo_owner |-> "o", repo_name |-> "a", total_stars |-> 2, stars_today |-> 2,
       topics |-> NONE],
      [repo_owner |-> "o", repo_name |-> "b", total_stars |-> 1, stars_today |-> 1,
       topics |-> NONE] }

RepoLists == UNION {[1..n -> ParsedRepos] : n \in 0..MaxRows}

\* batchFails: db.batch would reject; statements, batches: what the call
\* prepared and sent;
\* times: how often in a row the same list was persisted for the same date;
\* overwrote: the call met a row of one of its keys that held other values.
PersistReposCall ==
    \E rs \in RepoLists, d \in Days, batchFails \in BOOLEAN :
        LET r == persistRepos(archive, rs, d, batchFails)
            again == /\ call.fn = "persistRepos"
                     /\ ~call.threw
                     /\ call.repos = rs
                     /\ call.date = d
        IN  /\ archive' = r.db
            /\ call' = [fn |-> "persistRepos", done |-> TRUE, repos |-> rs, date |-> d,
                        batchFails |-> batchFails, statements |-> r.statements,
                        batches |-> r.batches,
                        threw |-> r.threw, rowsWritten |-> r.rowsWritten,
                        overwrote |-> /\ ~r.threw
                                      /\ \E i \in 1..Len(rs), x \in archive :
                                            /\ SameKey(x, Row(rs[i], d))
                                            /\ x # Row(rs[i], d),
                        times |-> IF r.threw THEN 0
                                  ELSE IF again /\ call.times < 2 THEN call.times + 1
                                  ELSE IF again THEN 2 ELSE 1]
            /\ UNCHANGED <<now, kv>>
            /\ UNCHANGED scrapeVars

NextPersist == PersistReposCall

PersistSpec == Init /\ [][NextPersist]_vars

\* persistRepos on a binding whose batch resolves with given results, as the
\* D1Result type allows them: per statement a success flag and a changes count,
\* possibly missing.  One call per behaviour: the count returned depends on the
\* results alone.
ChangeCounts == {<<>>, <<0>>, <<1>>, <<2>>}

D1Results == {D1Result(success, changes) : success \in BOOLEAN, changes \in ChangeCounts}

PersistReposOnResultsCall ==
    \E rs \in RepoLists :
        \E results \in [1..Len(rs) -> D1Results] :
            LET d == todayUTC(now)
                r == persistReposOnBatch(archive, rs, d, NONE, results)
            IN  /\ call = NoCall
                /\ archive' = r.db
                /\ call' = [fn |-> "persistRepos", done |-> TRUE, repos |-> rs,
                            date |-> d, results |-> results, threw |-> r.threw,
                            rowsWritten |-> r.rowsWritten]
                /\ UNCHANGED <<now, kv>>
                /\ UNCHANGED scrapeVars

NextBatchResult == PersistReposOnResultsCall

BatchResultSpec == Init /\ [][NextBatchResult]_vars

\* ------------------------------------------- parser.ts: parseFormattedNumber
\* Text is a sequence of characters.
Chars == {"1", "5", ".", ",", "k", "K", " ", "a"}

Texts == UNION {[1..n -> Chars] : n \in 0..MaxText}

DigitChars == <<"0", "1", "2", "3", "4", "5", "6", "7", "8", "9">>

IsDigit(c) == \E i \in 1..10 : DigitChars[i] = c

DigitValue(c) == (CHOOSE i \in 1..10 : DigitChars[i] = c) - 1

IsDigitOrDot(c) == IsDigit(c) \/ c = "."

IsSpace(c) == c = " "

RECURSIVE TrimStart(_)
TrimStart(t) == IF t # <<>> /\ IsSpace(Head(t)) THEN TrimStart(Tail(t)) ELSE t

RECURSIVE TrimEnd(_)
TrimEnd(t) ==
    IF t # <<>> /\ IsSpace(t[Len(t)]) THEN TrimEnd(SubSeq(t, 1, Len(t) - 1)) ELSE t

\* String.prototype.trim
Trim(t) == TrimEnd(TrimStart(t))

\* the longest prefix of t made of digits
RECURSIVE LeadingDigits(_)
LeadingDigits(t) ==
    IF t # <<>> /\ IsDigit(Head(t)) THEN <<Head(t)>> \o LeadingDigits(Tail(t)) ELSE <<>>

RECURSIVE DecimalValue(_)
DecimalValue(ds) ==
    IF ds = <<>> THEN 0
    ELSE 10 * DecimalValue(SubSeq(ds, 1, Len(ds) - 1)) + DigitValue(ds[Len(ds)])

NaN == [nan |-> TRUE, value |-> 0]

Num(n) == [nan |-> FALSE, value |-> n]

\* text.match(/^([\d.]+)k$/i)
KMatch(text) ==
    /\ Len(text) >= 2
    /\ text[Len(text)] \in {"k", "K"}
    /\ \A i \in 1..(Len(text) - 1) : IsDigitOrDot(text[i])

\* The Number values of parseFloat(...) * 1000 are IEEE 754 doubles.  Their
\* 53-bit significands do not fit a 32-bit integer, so a natural
\* number is kept as the sequence of its digits in base LIMB, lowest first.
LIMB == 32768

RECURSIVE BigNorm(_)
BigNorm(a) ==
    IF a # <<>> /\ a[Len(a)] = 0 THEN BigNorm(SubSeq(a, 1, Len(a) - 1)) ELSE a

RECURSIVE BigOf(_)
BigOf(n) == IF n = 0 THEN <<>> ELSE <<n % LIMB>> \o BigOf(n \div LIMB)

RECURSIVE BigValue(_)
BigValue(a) == IF a = <<>> THEN 0 ELSE a[1] + LIMB * BigValue(Tail(a))

RECURSIVE BigAddFrom(_, _, _, _)
BigAddFrom(a, b, i, carry) ==
    IF i > Len(a) /\ i > Len(b) THEN BigOf(carry)
    ELSE LET sum == (IF i <= Len(a) THEN a[i] ELSE 0)
                    + (IF i <= Len(b) THEN b[i] ELSE 0) + carry
         IN  <<sum % LIMB>> \o BigAddFrom(a, b, i + 1, sum \div LIMB)

BigAdd(a, b) == BigNorm(BigAddFrom(a, b, 1, 0))

\* a * m for 0 <= m < LIMB
RECURSIVE BigTimesFrom(_, _, _, _)
BigTimesFrom(a, m, i, carry) ==
    IF i > Len(a) THEN BigOf(carry)
    ELSE LET product == a[i] * m + carry
         IN  <<product % LIMB>> \o BigTimesFrom(a, m, i + 1, product \div LIMB)

BigTimes(a, m) == BigNorm(BigTimesFrom(a, m, 1, 0))

RECURSIVE BigMulFrom(_, _, _)
BigMulFrom(a, b, i) ==
    IF i > Len(b) THEN <<>>
    ELSE BigAddFrom(BigTimes(a, b[i]), <<0>> \o BigMulFrom(a, b, i + 1), 1, 0)

BigMul(a, b) == BigNorm(BigMulFrom(a, b, 1))

RECURSIVE BigLeqFrom(_, _, _)
BigLeqFrom(a, b, i) ==
    IF i = 0 THEN TRUE
    ELSE IF a[i] # b[i] THEN a[i] < b[i]
    ELSE BigLeqFrom(a, b, i - 1)

\* a <= b, both without leading zeros
BigLeq(a, b) == IF Len(a) # Len(b) THEN Len(a) < Len(b) ELSE BigLeqFrom(a, b, Len(a))

\* 2^k
BigPow2(k) == [j \in 1..(k \div 15 + 1) |-> IF j = k \div 15 + 1 THEN 2 ^ (k % 15) ELSE 0]

RECURSIVE BigPow10(_)
BigPow10(n) == IF n = 0 THEN <<1>> ELSE BigTimes(BigPow10(n - 1), 10)

RECURSIVE BigOfDigits(_)
BigOfDigits(ds) ==
    IF ds = <<>> THEN <<>>
    ELSE BigAdd(BigTimes(BigOfDigits(SubSeq(ds, 1, Len(ds) - 1)), 10),
                BigOf(DigitValue(ds[Len(ds)])))

RECURSIVE SmallBits(_)
SmallBits(n) == IF n = 0 THEN 0 ELSE 1 + SmallBits(n \div 2)

\* the number of binary digits of a # 0
BitLen(a) == 15 * (Len(a) - 1) + SmallBits(a[Len(a)])

\* floor(a / b) for a quotient below 2^(i + 1), bit by bit from the top
RECURSIVE BigQuotient(_, _, _, _)
BigQuotient(a, b, i, acc) ==
    IF i < 0 THEN acc
    ELSE LET higher == BigAdd(acc, BigPow2(i))
         IN  IF BigLeq(BigMul(higher, b), a) THEN BigQuotient(a, b, i - 1, higher)
             ELSE BigQuotient(a, b, i - 1, acc)

\* a / b rounded to the nearest integer, halves to the even one (the rounding
\* of every double operation); the quotient is below 2^54.
RoundHalfEven(a, b) ==
    LET q == BigQuotient(a, b, 53, <<>>)
        up == BigAdd(q, <<1>>)
        middle == BigMul(BigAdd(BigTimes(q, 2), <<1>>), b)
        twice == BigTimes(a, 2)
    IN  IF twice = middle THEN (IF q = <<>> \/ q[1] % 2 = 0 THEN q ELSE up)
        ELSE IF BigLeq(twice, middle) THEN q
        ELSE up

Zero == [m |-> <<>>, e |-> 0]

\* The double nearest to a / b, as m * 2^e with 2^52 <= m < 2^53 (m empty for
\* zero).  The exponent is taken as unbounded: with fewer than 300 digits no
\* text gets to the subnormal numbers or to Infinity.
Double(a, b) ==
    IF a = <<>> THEN Zero
    ELSE LET low == BitLen(a) - BitLen(b) - 53
             Numerator(k) == IF k < 0 THEN BigMul(a, BigPow2(0 - k)) ELSE a
             Denominator(k) == IF k > 0 THEN BigMul(b, BigPow2(k)) ELSE b
             e == IF BigLeq(BigMul(BigPow2(53), Denominator(low)), Numerator(low))
                  THEN low + 1 ELSE low
             m == RoundHalfEven(Numerator(e), Denominator(e))
         IN  IF m = BigPow2(53) THEN [m |-> BigPow2(52), e |-> e + 1]
             ELSE [m |-> m, e |-> e]

\* x * n in doubles, for a double x and an integer 0 < n < LIMB
DoubleTimes(x, n) ==
    IF x.m = <<>> THEN Zero
    ELSE Double(IF x.e > 0 THEN BigMul(BigTimes(x.m, n), BigPow2(x.e))
                ELSE BigTimes(x.m, n),
                IF x.e < 0 THEN BigPow2(0 - x.e) ELSE <<1>>)

\* parseFloat on a text of digits and dots: the longest prefix that is a decimal
\* literal (digits, then optionally a dot and digits), as the double nearest to
\* it; NaN when that prefix holds no digit.
parseFloat(t) ==
    LET whole == LeadingDigits(t)
        rest == SubSeq(t, Len(whole) + 1, Len(t))
        frac == IF rest # <<>> /\ Head(rest) = "." THEN LeadingDigits(Tail(rest)) ELSE <<>>
        x == Double(BigOfDigits(whole \o frac), BigPow10(Len(frac)))
    IN  [nan |-> whole = <<>> /\ frac = <<>>, m |-> x.m, e |-> x.e]

\* Math.round of a non-negative double: floor(x + 1/2), exactly.
MathRound(x) ==
    IF x.m = <<>> THEN 0
    ELSE IF x.e >= 0 THEN BigValue(BigMul(x.m, BigPow2(x.e)))
    ELSE BigValue(BigQuotient(BigAdd(BigTimes(x.m, 2), BigPow2(0 - x.e)),
                              BigPow2(1 - x.e), 53, <<>>))

\* parseInt(cleaned, 10) on a text of digits and dots, then isNaN(parsed) ? 0 : parsed
parseIntOrZero(cleaned) ==
    IF LeadingDigits(cleaned) = <<>> THEN 0 ELSE DecimalValue(LeadingDigits(cleaned))

parseFormattedNumber(raw) ==
    LET text == Trim(raw)
    IN  IF KMatch(text)
        THEN LET f == parseFloat(SubSeq(text, 1, Len(text) - 1))
             IN  IF f.nan THEN NaN ELSE Num(MathRound(DoubleTimes(f, 1000)))
        ELSE Num(parseIntOrZero(SelectSeq(text, IsDigitOrDot)))

\* ---------------------------------------------------- parser.ts as a library
NoRet == [threw |-> FALSE]

ParserCalls ==
    {[fn |-> "parseTrendingPage", done |-> FALSE, arg |-> page, ret |-> NoRet] :
        page \in MarkupPages}
    \cup {[fn |-> "parseFormattedNumber", done |-> FALSE, arg |-> t, ret |-> NoRet] :
        t \in Texts}

ParserInit ==
    /\ now = 0
    /\ archive = {}
    /\ kv = [k \in KvKeys |-> NoEntry]
    /\ Quiescent
    /\ call \in ParserCalls

ParseTrendingPageCall ==
    /\ call.fn = "parseTrendingPage"
    /\ ~call.done
    /\ call' = [call EXCEPT !.done = TRUE, !.ret = ParseResult(call.arg)]
    /\ UNCHANGED <<now, archive, kv>>
    /\ UNCHANGED scrapeVars

ParseFormattedNumberCall ==
    /\ call.fn = "parseFormattedNumber"
    /\ ~call.done
    /\ call' = [call EXCEPT !.done = TRUE, !.ret = parseFormattedNumber(call.arg)]
    /\ UNCHANGED <<now, archive, kv>>
    /\ UNCHANGED scrapeVars

NextParser ==
    \/ ParseTrendingPageCall
    \/ ParseFormattedNumberCall

ParserSpec == ParserInit /\ [][NextParser]_vars

\* ================================================================ read side
\* src/src/lib/format.ts: the enrichment of one date's listing.  Dates are day
\* numbers; the YYYY-MM-DD strings of the code compare in the same order.
STREAK_LOOKBACK_DAYS == 60
STAR_HISTORY_LOOKBACK_DAYS == 365

daysAgo(d, n) == d - n

previousDay(d) == d - 1

MathMax(a, b) == IF a >= b THEN a ELSE b

RepoKey(r) == <<r.repo_owner, r.repo_name>>

\* hi, hi-1, ..., lo and lo, lo+1, ..., hi
DescRange(hi, lo) == [i \in 1..(hi - lo + 1) |-> hi - i + 1]

AscRange(lo, hi) == [i \in 1..(hi - lo + 1) |-> lo + i - 1]

\* The archives the queries run on: the queried day is late enough for both
\* look-back windows to lie inside the archive's days.
QueryDay == STAR_HISTORY_LOOKBACK_DAYS + 2

QueryDates == {QueryDay, QueryDay + 1}

LastDay == QueryDay + 1

HistoryRow(owner, name, d) ==
    [repo_owner |-> owner, repo_name |-> name, total_stars |-> 1,
     stars_today |-> (d % 2) + 1, trending_date |-> d]

\* A repository's history: a run of consecutive days ending on QueryDay, plus
\* isolated days after the run, after QueryDay, and around the far window edge.
RunLengths == (0..MaxRun) \cup {STREAK_LOOKBACK_DAYS + i : i \in 0..MaxRun}

NearDays == {QueryDay + 1, QueryDay - MaxRun - 1}

FarDays == {daysAgo(QueryDay, STAR_HISTORY_LOOKBACK_DAYS),
            daysAgo(QueryDay, STAR_HISTORY_LOOKBACK_DAYS) - 1}

RepoHistories(owner, name, runs, extras) ==
    {{HistoryRow(owner, name, d) : d \in {QueryDay - i : i \in 0..(k - 1)} \cup X} :
        k \in runs, X \in SUBSET extras}

QueryArchives ==
    {ha \cup hb : ha \in RepoHistories("o", "a", RunLengths, NearDays \cup FarDays),
                  hb \in RepoHistories("o", "b", 0..MaxRun, NearDays)}

\* A listed repository; streak, is_new_entry and star_history are optional
\* properties: <<>> when absent, <<v>> when set to v.
TrendingRepo(t) ==
    [repo_owner |-> t.repo_owner, repo_name |-> t.repo_name,
     total_stars |-> t.total_stars, stars_today |-> t.stars_today,
     streak |-> <<>>, is_new_entry |-> <<>>, star_history |-> <<>>]

\* SELECT ... WHERE trending_date = ? ORDER BY stars_today DESC: the result
\* sequences the engine may return (equal stars_today come in any order).
getTrendingRepos(db, d) ==
    LET S == {t \in db : t.trending_date = d}
    IN  {[i \in 1..Len(s) |-> TrendingRepo(s[i])] :
            s \in {q \in [1..Cardinality(S) -> S] :
                      /\ \A i, j \in 1..Cardinality(S) : i # j => q[i] # q[j]
                      /\ \A i \in 1..(Cardinality(S) - 1) :
                            q[i].stars_today >= q[i + 1].stars_today}}

\* FROM trending_repos h INNER JOIN trending_repos t ON (same owner and name)
\* WHERE t.trending_date = ?
JoinOnDate(db, d) ==
    LET listed == {RepoKey(t) : t \in {x \in db : x.trending_date = d}}
    IN  {h \in db : RepoKey(h) \in listed}

DatesOf(rows, r) == {h.trending_date : h \in {x \in rows : RepoKey(x) = RepoKey(r)}}

\* The streak query's rows of one repository, ORDER BY trending_date DESC.
StreakDates(db, d, r) ==
    LET results == {h \in JoinOnDate(db, d) :
                       /\ h.trending_date <= d
                       /\ h.trending_date >= daysAgo(d, STREAK_LOOKBACK_DAYS)}
        mine == DatesOf(results, r)
    IN  SelectSeq(DescRange(d, daysAgo(d, STREAK_LOOKBACK_DAYS)), LAMBDA x : x \in mine)

RECURSIVE StreakLoop(_, _, _)
StreakLoop(dates, streak, expected) ==
    IF dates = <<>> THEN streak
    ELSE IF Head(dates) = expected
         THEN StreakLoop(Tail(dates), streak + 1, previousDay(expected))
    ELSE IF Head(dates) < expected THEN streak
    ELSE StreakLoop(Tail(dates), streak, expected)

consecutiveStreak_CountsAll(sortedDatesDesc, targetDate) == Len(sortedDatesDesc)

consecutiveStreak(sortedDatesDesc, targetDate) == StreakLoop(sortedDatesDesc, 0, targetDate)

calculateStreaks(db, d, rs) ==
    [i \in 1..Len(rs) |->
        LET dates == StreakDates(db, d, rs[i])
        IN  [rs[i] EXCEPT !.streak =
                <<IF dates # <<>> THEN MathMax(1, consecutiveStreak(dates, d)) ELSE 1>>]]

\* WHERE trending_date = ? AND NOT EXISTS (... h.trending_date < ?)
NewEntryKeys_Inclusive(db, d) ==
    {RepoKey(t) : t \in {x \in db : /\ x.trending_date = d
                                    /\ ~\E h \in db : /\ RepoKey(h) = RepoKey(x)
                                                      /\ h.trending_date <= d}}

NewEntryKeys(db, d) ==
    {RepoKey(t) : t \in {x \in db : /\ x.trending_date = d
                                    /\ ~\E h \in db : /\ RepoKey(h) = RepoKey(x)
                                                      /\ h.trending_date < d}}

detectNewEntries(db, d, rs) ==
    [i \in 1..Len(rs) |->
        [rs[i] EXCEPT !.is_new_entry = <<RepoKey(rs[i]) \in NewEntryKeys(db, d)>>]]

\* The history query's rows of one repository, ORDER BY trending_date ASC; the
\* WHERE clause bounds h.trending_date from below only.
StarHistoryPoints(db, d, r) ==
    LET results == {h \in JoinOnDate(db, d) :
                       h.trending_date >= daysAgo(d, STAR_HISTORY_LOOKBACK_DAYS)}
        mine == {x \in results : RepoKey(x) = RepoKey(r)}
        dates == DatesOf(results, r)
        days == SelectSeq(AscRange(daysAgo(d, STAR_HISTORY_LOOKBACK_DAYS), LastDay),
                          LAMBDA x : x \in dates)
    IN  [i \in 1..Len(days) |->
            [date |-> days[i],
             stars_today |-> (CHOOSE x \in mine : x.trending_date = days[i]).stars_today]]

fetchStarHistory(db, d, rs) ==
    [i \in 1..Len(rs) |->
        LET points == StarHistoryPoints(db, d, rs[i])
        IN  IF Len(points) >= 2 THEN [rs[i] EXCEPT !.star_history = <<points>>]
            ELSE rs[i]]

Enrichments == {"calculateStreaks", "detectNewEntries", "fetchStarHistory"}

\* getTrendingReposWithStreaks, format.ts 262-283: four awaited calls in turn.
\* The call after an enrichment, whether its query threw (the catch blocks are
\* empty) or not.
AfterEnrichment_FirstFailureStops(step, threw) ==
    IF threw THEN "returned"
    ELSE CASE step = "calculateStreaks" -> "detectNewEntries"
           [] step = "detectNewEntries" -> "fetchStarHistory"
           [] step = "fetchStarHistory" -> "returned"

AfterEnrichment(step, threw) ==
    CASE step = "calculateStreaks" -> "detectNewEntries"
      [] step = "detectNewEntries" -> "fetchStarHistory"
      [] step = "fetchStarHistory" -> "returned"

\* What an enrichment whose query answered on db leaves in the list rs.
Enrich(step, db, d, rs) ==
    CASE step = "calculateStreaks" -> calculateStreaks(db, d, rs)
      [] step = "detectNewEntries" -> detectNewEntries(db, d, rs)
      [] step = "fetchStarHistory" -> fetchStarHistory(db, d, rs)

\* The call's locals while it waits for the query named in step; failed and
\* applied: the enrichments whose query threw, and those that went through.
TrendingPending(d) ==
    [fn |-> "getTrendingReposWithStreaks", done |-> FALSE, step |-> "getTrendingRepos",
     date |-> d, threw |-> FALSE, failed |-> {}, applied |-> {}, repos |-> <<>>]

TrendingRequest(dates) ==
    /\ call.done
    /\ \E d \in dates : call' = TrendingPending(d)
    /\ UNCHANGED <<now, archive, kv>>
    /\ UNCHANGED scrapeVars

AtTrending(steps) ==
    call.fn = "getTrendingReposWithStreaks" /\ ~call.done /\ call.step \in steps

\* const repos = await getTrendingRepos(db, date), outside the try blocks.
TrendingBaseQuery ==
    /\ AtTrending({"getTrendingRepos"})
    /\ \E baseFails \in BOOLEAN :
          IF baseFails
          THEN call' = [call EXCEPT !.done = TRUE, !.step = "rejected", !.threw = TRUE]
          ELSE \E listed \in getTrendingRepos(archive, call.date) :
                  call' = [call EXCEPT !.step = "calculateStreaks", !.repos = listed]
    /\ UNCHANGED <<now, archive, kv>>
    /\ UNCHANGED scrapeVars

\* One enrichment: its query reads the archive of this moment and its loop
\* sets the field on the list of the base query.  With an empty list it
\* returns before its query (format.ts 356, 414).
TrendingEnrichment ==
    /\ AtTrending(Enrichments)
    /\ \E queryFails \in BOOLEAN :
          /\ queryFails => Len(call.repos) > 0
          /\ LET next == AfterEnrichment(call.step, queryFails)
             IN  call' = [call EXCEPT
                             !.step = next,
                             !.done = (next = "returned"),
                             !.failed = IF queryFails THEN @ \cup {call.step} ELSE @,
                             !.applied = IF queryFails THEN @ ELSE @ \cup {call.step},
                             !.repos = IF queryFails THEN @
                                       ELSE Enrich(call.step, archive, call.date, @)]
    /\ UNCHANGED <<now, archive, kv>>
    /\ UNCHANGED scrapeVars

getTrendingReposWithStreaks(dates) ==
    \/ TrendingRequest(dates)
    \/ TrendingBaseQuery
    \/ TrendingEnrichment

TrendingInit ==
    /\ now = 0
    /\ archive \in QueryArchives
    /\ kv = [k \in KvKeys |-> NoEntry]
    /\ Quiescent
    /\ call = NoCall

\* One request per behaviour: a request writes nothing a later one could read.
GetTrendingReposWithStreaksCall ==
    /\ call.fn \in {NONE, "getTrendingReposWithStreaks"}
    /\ call = NoCall \/ ~call.done
    /\ getTrendingReposWithStreaks(QueryDates)

\* A listing with other numbers than the archive's rows.
RescrapedRepos ==
    << [repo_owner |-> "o", repo_name |-> "a", total_stars |-> 3, stars_today |-> 3,
        topics |-> NONE] >>

\* persistRepos(db, repos, date) of a run for the queried day or the day before
\* it: its db.batch commits, before, between or after the queries of a request.
RescrapeCommits ==
    /\ \E d \in {QueryDay - 1, QueryDay} :
          archive' = persistRepos(archive, RescrapedRepos, d, FALSE).db
    /\ archive' # archive
    /\ UNCHANGED <<now, kv, call>>
    /\ UNCHANGED scrapeVars

NextTrending ==
    \/ GetTrendingReposWithStreaksCall
    \/ RescrapeCommits

TrendingSpec == TrendingInit /\ [][NextTrending]_vars

\* ================================================================ weekly view
\* src/src/lib/dates.ts: day 0 is 1970-01-01, a Thursday; getDay is 0 on Sundays.
getDay(d) == (d + 4) % 7

getMondayOfWeek(d) ==
    LET dayOfWeek == getDay(d)
        diff == IF dayOfWeek = 0 THEN -6 ELSE 1 - dayOfWeek
    IN  d + diff

getSundayOfWeek(monday) == monday + 6

\* The week under study starts on the first Monday that has a day before it.
WeekMonday == CHOOSE d \in 1..7 : getDay(d) = 1

WeekRow(owner, name, d, s) ==
    [repo_owner |-> owner, repo_name |-> name, total_stars |-> d,
     stars_today |-> s + (d % 2), trending_date |-> d]

RowsOn(owner, name, days, s) == {WeekRow(owner, name, d, s) : d \in days}

WeekDaySets ==
    { {}, {WeekMonday - 1, WeekMonday}, {WeekMonday, WeekMonday + 1},
      WeekMonday..(WeekMonday + 5), WeekMonday..(WeekMonday + 6),
      {WeekMonday + 6, WeekMonday + 7} }

WeekArchives ==
    {ra \cup rb \cup rc :
        ra \in {RowsOn("o", "a", days, s) : days \in WeekDaySets, s \in 1..2},
        rb \in {RowsOn("o", "b", days, s) :
                   days \in {{}, {WeekMonday, WeekMonday + 1},
                             {WeekMonday + 1, WeekMonday + 2}}, s \in 1..2},
        rc \in {RowsOn("o", "c", days, 1) : days \in {{}, {WeekMonday + 3}}}}

RECURSIVE SumStarsToday(_)
SumStarsToday(rows) ==
    IF rows = {} THEN 0
    ELSE LET x == CHOOSE y \in rows : TRUE
         IN  x.stars_today + SumStarsToday(rows \ {x})

\* The inner SELECT's window values of one repository, on its rn = 1 row.
WeeklyEntry(rows) ==
    LET latest == CHOOSE x \in rows : \A y \in rows : y.trending_date <= x.trending_date
    IN  [repo_owner |-> latest.repo_owner, repo_name |-> latest.repo_name,
         total_stars |-> latest.total_stars,
         appearances |-> Cardinality(rows),
         total_stars_gained |-> SumStarsToday(rows),
         max_stars_today |-> CHOOSE m \in {x.stars_today : x \in rows} :
                                \A x \in rows : x.stars_today <= m]

InRange(db, weekStart, weekEnd) ==
    {x \in db : x.trending_date >= weekStart /\ x.trending_date <= weekEnd}

\* ORDER BY appearances DESC, total_stars_gained DESC: the sequences the engine
\* may return (entries equal on both keys come in any order).
WeeklyOrderings(entries) ==
    {q \in [1..Cardinality(entries) -> entries] :
        /\ \A i, j \in 1..Cardinality(entries) : i # j => q[i] # q[j]
        /\ \A i \in 1..(Cardinality(entries) - 1) :
              \/ q[i].appearances > q[i + 1].appearances
              \/ /\ q[i].appearances = q[i + 1].appearances
                 /\ q[i].total_stars_gained >= q[i + 1].total_stars_gained}

\* getWeeklyTrendingRepos: the possible outcomes.  The statement holds
\* COUNT(DISTINCT trending_date) OVER (); an engine that has no DISTINCT in
\* window functions (SQLite, hence D1) rejects it when it is prepared and the
\* call throws.  Otherwise days_in_week is the number of distinct dates in range.
getWeeklyTrendingRepos(db, weekStart, weekEnd, windowDistinct) ==
    LET rows == InRange(db, weekStart, weekEnd)
        entries == {WeeklyEntry({x \in rows : RepoKey(x) = k}) :
                       k \in {RepoKey(x) : x \in rows}}
        days_in_week == Cardinality({x.trending_date : x \in rows})
    IN  IF ~windowDistinct
        THEN {[threw |-> TRUE, repos |-> <<>>, daysWithData |-> 0]}
        ELSE {[threw |-> FALSE, repos |-> q,
               daysWithData |-> IF Len(q) > 0 THEN days_in_week ELSE 0] :
                 q \in WeeklyOrderings(entries)}

WeeklyInit ==
    /\ now = 0
    /\ archive \in WeekArchives
    /\ kv = [k \in KvKeys |-> NoEntry]
    /\ Quiescent
    /\ call = NoCall

\* One call per behaviour: the function writes nothing.
GetWeeklyTrendingReposCall ==
    \E weekStart \in {WeekMonday, WeekMonday + 7}, windowDistinct \in BOOLEAN :
        \E r \in getWeeklyTrendingRepos(archive, weekStart, getSundayOfWeek(weekStart),
                                        windowDistinct) :
            /\ call = NoCall
            /\ call' = [fn |-> "getWeeklyTrendingRepos", done |-> TRUE,
                        weekStart |-> weekStart, weekEnd |-> getSundayOfWeek(weekStart),
                        windowDistinct |-> windowDistinct, threw |-> r.threw,
                        repos |-> r.repos, daysWithData |-> r.daysWithData]
            /\ UNCHANGED <<now, archive, kv>>
            /\ UNCHANGED scrapeVars

NextWeekly == GetWeeklyTrendingReposCall

WeeklySpec == WeeklyInit /\ [][NextWeekly]_vars

\* ---- GET /api/trending/week/[date] (src/unnamed/part_010)
CURRENT_WEEK_TTL_SECONDS == 3600

HALF_HOUR == 30 * 60

\* expiresAt of an entry written without expirationTtl
NoExpiry == -1

WeekKey(weekStart) == "trending:week:" \o ToString(weekStart)

WeekKeys == {WeekKey(WeekMonday)}

\* kv.get(key) !== null
KvLive(store, key, t) ==
    /\ store[key].present
    /\ store[key].expiresAt = NoExpiry \/ store[key].expiresAt > t

KvPutNoTtl(store, key, value, t) ==
    [store EXCEPT ![key] = [present |-> TRUE, value |-> value, writtenAt |-> t,
                           expiresAt |-> NoExpiry]]

isValidDate(param) == param # NoDate

\* The date of the request path: a Wednesday and the Sunday of the week, or
\* something that is not a date.
DateParams == {WeekMonday + 2, WeekMonday + 6, NoDate}


\* ================================================================ language distribution
\* src/src/lib/format.ts, applyPercentages.  A percentage is kept as its number
\* of tenths (the code returns tenths / 10).
LanguageNames == <<"Go", "Rust", "Zig", "C">>

LanguageRows ==
    UNION {{[i \in 1..n |-> [language |-> LanguageNames[i], count |-> cs[i]]] :
               cs \in [1..n -> 0..MaxCount]} : n \in 0..MaxBuckets}

RECURSIVE SumCounts(_)
SumCounts(rows) ==
    IF rows = <<>> THEN 0 ELSE Head(rows).count + SumCounts(Tail(rows))

RECURSIVE SumTenths(_)
SumTenths(entries) ==
    IF entries = <<>> THEN 0 ELSE Head(entries).tenths + SumTenths(Tail(entries))

\* Math.floor((count / total) * 1000)
FlooredTenths(r, total) == (r.count * 1000) \div total

\* rawTenths - flooredTenths, as a number of total-ths
Remainder(r, total) == (r.count * 1000) % total

\* The entries that get one of the leftover tenths: the first `leftover` of the
\* entries sorted by remainder, largest first.  The sort is stable, so of two
\* entries with the same count the earlier comes first; entries with different
\* counts and the same exact remainder differ by floating-point noise and come
\* in either order.
Incremented_None(rows, total, leftover) == {{}}

Incremented_FirstBuckets(rows, total, leftover) ==
    {1..(IF leftover <= Len(rows) THEN leftover ELSE Len(rows))}

Incremented(rows, total, leftover) ==
    {B \in SUBSET (1..Len(rows)) :
        /\ Cardinality(B) = IF leftover <= Len(rows) THEN leftover ELSE Len(rows)
        /\ \A i \in B, j \in (1..Len(rows)) \ B :
              /\ Remainder(rows[i], total) >= Remainder(rows[j], total)
              /\ rows[i].count = rows[j].count => i < j}

\* The lists applyPercentages may return.
applyPercentages(rows) ==
    LET total == SumCounts(rows)
        entries == [i \in 1..Len(rows) |->
                       [language |-> rows[i].language, count |-> rows[i].count,
                        tenths |-> FlooredTenths(rows[i], total)]]
        leftover == 1000 - SumTenths(entries)
    IN  IF total = 0 THEN {<<>>}
        ELSE {[i \in 1..Len(rows) |->
                 [entries[i] EXCEPT !.tenths = IF i \in B THEN @ + 1 ELSE @]] :
                 B \in Incremented(rows, total, leftover)}

PercentInit ==
    /\ now = 0
    /\ archive = {}
    /\ kv = [k \in KvKeys |-> NoEntry]
    /\ Quiescent
    /\ call \in {[fn |-> "applyPercentages", done |-> FALSE, arg |-> rows, ret |-> <<>>] :
                    rows \in LanguageRows}

ApplyPercentagesCall ==
    /\ call.fn = "applyPercentages"
    /\ ~call.done
    /\ \E ret \in applyPercentages(call.arg) :
          call' = [call EXCEPT !.done = TRUE, !.ret = ret]
    /\ UNCHANGED <<now, archive, kv>>
    /\ UNCHANGED scrapeVars

NextPercent == ApplyPercentagesCall

PercentSpec == PercentInit /\ [][NextPercent]_vars

\* ================================================================ weekly handlers
\* GET /api/trending/week/[date] (part_010 116-221) and
\* GET /api/languages/week/[date] (pages/api/languages/week/[date].ts 11-91)
\* are the same handler around two queries and two key prefixes.
LanguagesWeekKey(weekStart) == "languages:week:" \o ToString(weekStart)

\* const cacheKey = `trending:week:${weekStart}` / `languages:week:${weekStart}`
WeekKeyOf(fn, weekStart) ==
    IF fn = "GET /api/trending/week" THEN WeekKey(weekStart) ELSE LanguagesWeekKey(weekStart)

\* The handler's locals while it waits for the call named in step: today and
\* isCurrentWeek are computed before the first await (part_010 131-132).
WeekPending(fn, param, t) ==
    LET weekStart == getMondayOfWeek(param)
        weekEnd == getSundayOfWeek(weekStart)
        today == todayUTC(t)
    IN  [fn |-> fn, done |-> FALSE, step |-> "kv.get",
         param |-> param, cacheKey |-> WeekKeyOf(fn, weekStart), today |-> today,
         isCurrent |-> (weekStart <= today /\ today <= weekEnd),
         status |-> 0, cacheHit |-> FALSE, queried |-> FALSE, threw |-> FALSE,
         body |-> NONE]

\* The 400 of a path that holds no date; nothing was computed or awaited.
WeekResponse(fn, param, status, body) ==
    [fn |-> fn, done |-> TRUE, step |-> "responded",
     param |-> param, cacheKey |-> NONE, today |-> NoDate, isCurrent |-> FALSE,
     status |-> status, cacheHit |-> FALSE, queried |-> FALSE, threw |-> FALSE,
     body |-> body]

\* The handler returns a Response.
Responds(c, status, body) ==
    [c EXCEPT !.done = TRUE, !.step = "responded", !.status = status, !.body = body]

\* An await outside every try block rejects, and the handler with it.
Rejects(c) == [c EXCEPT !.done = TRUE, !.step = "rejected", !.threw = TRUE]

\* if (results.length > 0): an empty result is not put into the cache
Cacheable_Always(results) == TRUE

Cacheable(results) == Len(results) > 0

WeekBody(weekStart, weekEnd, today, r) ==
    [week_start |-> weekStart, week_end |-> weekEnd,
     partial |-> (weekEnd > today \/ r.daysWithData < 7), repos |-> r.repos]

\* Sunday 23:30 UTC; the rows of the week so far, up to Saturday or up to today.
WeekApiInit ==
    /\ now = (WeekMonday + 7) * DAY_SECONDS - HALF_HOUR
    /\ archive \in {RowsOn("o", "a", days, 1) :
                      days \in {{}, WeekMonday..(WeekMonday + 5),
                                WeekMonday..(WeekMonday + 6)}}
    /\ kv = [k \in WeekKeys |-> NoEntry]
    /\ Quiescent
    /\ call = NoCall

\* Requests are served one after the other.
WeekRequest(fn) ==
    /\ call.done
    /\ \E param \in DateParams :
          call' = IF ~isValidDate(param)
                  THEN WeekResponse(fn, param, 400, [error |-> "Invalid date format"])
                  ELSE WeekPending(fn, param, now)
    /\ UNCHANGED <<now, archive, kv>>
    /\ UNCHANGED scrapeVars

AtWeek(fn, step) == call.fn = fn /\ ~call.done /\ call.step = step

\* await kv.get(cacheKey), part_010 138: outside the try blocks.
WeekKvGet(fn) ==
    /\ AtWeek(fn, "kv.get")
    /\ \E getFails \in BOOLEAN :
          call' = IF getFails THEN Rejects(call)
                  ELSE IF KvLive(kv, call.cacheKey, now)
                  THEN [Responds(call, 200, kv[call.cacheKey].value) EXCEPT !.cacheHit = TRUE]
                  ELSE [call EXCEPT !.step = "query"]
    /\ UNCHANGED <<now, archive, kv>>
    /\ UNCHANGED scrapeVars

\* format.ts 64-84: COUNT(DISTINCT repo_owner || '/' || repo_name) per language
\* over the rows of the range; the rows of the model carry no language column,
\* which is the archive of rows with language NULL: one group, 'Unknown'.
getWeeklyLanguageDistribution(db, weekStart, weekEnd) ==
    LET count == Cardinality({RepoKey(x) : x \in InRange(db, weekStart, weekEnd)})
    IN  applyPercentages(IF count = 0 THEN <<>>
                         ELSE <<[language |-> "Unknown", count |-> count]>>)

\* What the handler's query may answer: the list that decides on the put and
\* the body of the response (part_010 168-192; languages/week/[date].ts 61-73).
WeekAnswers(fn, db, weekStart, weekEnd, today) ==
    IF fn = "GET /api/trending/week"
    THEN UNION {{[threw |-> r.threw, list |-> r.repos,
                  body |-> WeekBody(weekStart, weekEnd, today, r)] :
                    r \in getWeeklyTrendingRepos(db, weekStart, weekEnd, windowDistinct)} :
                  windowDistinct \in BOOLEAN}
    ELSE {[threw |-> TRUE, list |-> <<>>, body |-> <<>>]}
         \cup {[threw |-> FALSE, list |-> results, body |-> results] :
                  results \in getWeeklyLanguageDistribution(db, weekStart, weekEnd)}

\* The awaited query in its try block, 500 when it throws.
WeekQuery(fn) ==
    /\ AtWeek(fn, "query")
    /\ LET weekStart == getMondayOfWeek(call.param)
           weekEnd == getSundayOfWeek(weekStart)
       IN  \E r \in WeekAnswers(fn, archive, weekStart, weekEnd, call.today) :
              call' = IF r.threw
                      THEN [Responds(call, 500, [error |-> "Database query failed"])
                               EXCEPT !.queried = TRUE]
                      ELSE IF Cacheable(r.list)
                      THEN [call EXCEPT !.step = "kv.put", !.queried = TRUE,
                                        !.body = r.body]
                      ELSE [Responds(call, 200, r.body) EXCEPT !.queried = TRUE]
    /\ UNCHANGED <<now, archive, kv>>
    /\ UNCHANGED scrapeVars

\* await kv.put(cacheKey, json, isCurrentWeek ? {expirationTtl} : undefined) in
\* its try block, part_010 196-205; the response follows.
WeekKvPut(fn) ==
    /\ AtWeek(fn, "kv.put")
    /\ \E putFails \in BOOLEAN :
          kv' = IF putFails THEN kv
                ELSE IF call.isCurrent
                THEN KvPut(kv, call.cacheKey, call.body, CURRENT_WEEK_TTL_SECONDS, now)
                ELSE KvPutNoTtl(kv, call.cacheKey, call.body, now)
    /\ call' = Responds(call, 200, call.body)
    /\ UNCHANGED <<now, archive>>
    /\ UNCHANGED scrapeVars

GetByWeek(fn) ==
    \/ WeekRequest(fn)
    \/ WeekKvGet(fn)
    \/ WeekQuery(fn)
    \/ WeekKvPut(fn)

GetWeek == GetByWeek("GET /api/trending/week")

GetLanguagesWeek == GetByWeek("GET /api/languages/week")

\* The trending page of the day: one repository.
ListingPage == << [heading |-> "link", href |-> <<"o", "a">>, stars |-> 1, today |-> 1] >>

\* runScrapePipeline(db) and runScrapePipeline(db, targetDate) for the Sunday
\* of the week, one run at a time, stage by stage next to the requests.
ListingScrapeOn(targets) ==
    \E p \in Procs :
        \/ Quiet /\ StartPipelineOn(p, targets)
        \/ RandomDelay(p)
        \/ Fetch(p, {ListingPage})
        \/ ParseTrendingPage(p)
        \/ EnrichReposWithTopics(p)
        \/ PersistRepos(p)
        \/ Return(p)

ListingScrape == ListingScrapeOn({NoDate, WeekMonday + 6})

\* Half an hour passes, from half an hour before midnight on.
WeekTick ==
    /\ (now + HALF_HOUR) % DAY_SECONDS < MaxTicks * HALF_HOUR
    /\ now' = now + HALF_HOUR
    /\ UNCHANGED <<archive, kv, call>>
    /\ UNCHANGED scrapeVars

NextWeekApi ==
    \/ GetWeek
    \/ ListingScrape
    \/ WeekTick

WeekApiSpec == WeekApiInit /\ [][NextWeekApi]_vars

\* ================================================================ cron endpoint
\* src/src/pages/api/cron.ts, GET.  X-Cron-Source as the request carries it
\* (NONE: no such header).
CronHeaders == {"scheduled", "manual", NONE}

IsOk_AnySkip(r) == r.success \/ r.skipped

IsOk(r) == r.success \/ (r.skipped /\ r.skipReason # "max_retries_exceeded")

CronStatus(r) == IF IsOk(r) THEN 200 ELSE 500

\* The Telegram message the handler tries to send for a result, if configured.
Notification(r) ==
    IF r.success /\ ~r.skipped THEN "trending"
    ELSE IF ~r.skipped THEN "failure" ELSE NONE

\* Lines 55-76: what the catch answers to whatever runScrapeWithRetry threw.
InternalError_Leaks(message) == [status |-> 500, error |-> message]

InternalError(message) == [status |-> 500, error |-> "Internal scrape error"]

CronPending == [fn |-> "GET /api/cron", done |-> FALSE, header |-> "scheduled"]

\* Lines 15-20: the header check.  A request is taken when none is being served.
CronRequest ==
    /\ call.done
    /\ Quiet
    /\ \E h \in CronHeaders :
          call' = IF h # "scheduled"
                  THEN [fn |-> "GET /api/cron", done |-> TRUE, header |-> h,
                        status |-> 403, threw |-> FALSE, result |-> NoResult,
                        notify |-> NONE, error |-> "Forbidden"]
                  ELSE CronPending
    /\ UNCHANGED <<now, archive, kv>>
    /\ UNCHANGED scrapeVars

\* Line 26: the call of runScrapeWithRetry.
CronInvoke(p) ==
    /\ call = CronPending
    /\ Quiet
    /\ StartRetry(p)

\* Lines 27-54 and 55-76: the notification (its failure is logged) and the response.
CronRespond(p) ==
    /\ call = CronPending
    /\ pc[p] \in {"done", "threw"}
    /\ \E telegramConfig \in BOOLEAN :
          call' = IF pc[p] = "threw"
                  THEN [fn |-> "GET /api/cron", done |-> TRUE, header |-> "scheduled",
                        status |-> InternalError("D1_ERROR").status, threw |-> TRUE,
                        result |-> NoResult,
                        notify |-> IF telegramConfig THEN "failure" ELSE NONE,
                        error |-> InternalError("D1_ERROR").error]
                  ELSE [fn |-> "GET /api/cron", done |-> TRUE, header |-> "scheduled",
                        status |-> CronStatus(result[p]), threw |-> FALSE,
                        result |-> result[p],
                        notify |-> IF telegramConfig THEN Notification(result[p])
                                   ELSE NONE,
                        error |-> NONE]
    /\ UNCHANGED <<now, archive, kv>>
    /\ UNCHANGED scrapeVars

CronReturn(p) == call.done /\ Return(p)

CronStep(p) ==
    \/ RandomDelay(p)
    \/ Fetch(p, ShortPages)
    \/ ParseTrendingPage(p)
    \/ EnrichReposWithTopics(p)
    \/ PersistRepos(p)
    \/ HasDataForDate(p)
    \/ GetRetryCount(p)
    \/ ClearRetryCount(p)
    \/ SetRetryCount(p)

NextCron ==
    \/ CronRequest
    \/ \E p \in Procs : CronInvoke(p)
    \/ \E p \in Procs : CronStep(p)
    \/ \E p \in Procs : CronRespond(p)
    \/ \E p \in Procs : CronReturn(p)

CronSpec == Init /\ [][NextCron]_vars

\* ================================================================ archive lifetime
\* Everything that touches trending_repos: scheduled and direct pipeline runs,
\* one at a time, and the aggregation queries of src/lib/format.ts, asked
\* one after the other, before, during and after the runs.
DailyQuery == getTrendingReposWithStreaks(Days)

WeeklyQuery ==
    \E d \in Days, windowDistinct \in BOOLEAN :
        LET weekStart == getMondayOfWeek(d)
            weekEnd == getSundayOfWeek(weekStart)
        IN  \E r \in getWeeklyTrendingRepos(archive, weekStart, weekEnd, windowDistinct) :
                /\ call.done
                /\ call' = [fn |-> "getWeeklyTrendingRepos", done |-> TRUE,
                            weekStart |-> weekStart, weekEnd |-> weekEnd,
                            windowDistinct |-> windowDistinct, threw |-> r.threw,
                            repos |-> r.repos, daysWithData |-> r.daysWithData]
                /\ UNCHANGED <<now, archive, kv>>
                /\ UNCHANGED scrapeVars

\* format.ts 38-59.  The rows of the model carry no language column, which is
\* the archive of rows with language NULL: one group, COALESCE(language, 'Unknown').
getLanguageDistribution(db, d) ==
    LET count == Cardinality({r \in db : r.trending_date = d})
    IN  applyPercentages(IF count = 0 THEN <<>>
                         ELSE <<[language |-> "Unknown", count |-> count]>>)

LanguageQuery ==
    \E d \in Days :
        \E ret \in getLanguageDistribution(archive, d) :
            /\ call.done
            /\ call' = [fn |-> "getLanguageDistribution", done |-> TRUE, date |-> d,
                        ret |-> ret]
            /\ UNCHANGED <<now, archive, kv>>
            /\ UNCHANGED scrapeVars

NextArchive ==
    \/ \E p \in Procs : ScheduledRun(p)
    \/ \E p \in Procs : DirectRun(p)
    \/ \E p \in Procs : StepOn(p, RerunPages)
    \/ DailyQuery
    \/ WeeklyQuery
    \/ LanguageQuery

ArchiveSpec == Init /\ [][NextArchive]_vars

\* ================================================================ read-through cache
\* GET /api/trending/[date] (src/unnamed/part_010 15-104) and
\* GET /api/languages/[date] (src/src/pages/api/languages/[date].ts) are the
\* same handler around two queries; with GET /api/trending/week/[date] they
\* share the cache namespace.
TODAY_TTL_SECONDS == 3600

DayKey(d) == "trending:" \o ToString(d)

LanguagesKey(d) == "languages:" \o ToString(d)

\* The date of the request path: the Sunday of the week (today, until midnight),
\* or something that is not a date.
DayParams == {WeekMonday + 6, NoDate}

ReadKeys ==
    WeekKeys \cup {LanguagesWeekKey(WeekMonday)}
             \cup {DayKey(d) : d \in DayParams \ {NoDate}}
             \cup {LanguagesKey(d) : d \in DayParams \ {NoDate}}

\* const cacheKey = `trending:${date}` / `languages:${date}`
DateKey(fn, d) == IF fn = "GET /api/trending" THEN DayKey(d) ELSE LanguagesKey(d)

\* The handler's locals while it waits for the call named in step: isToday is
\* computed before the first await (part_010 27).
DatePending(fn, param, t) ==
    [fn |-> fn, done |-> FALSE, step |-> "kv.get", param |-> param,
     cacheKey |-> DateKey(fn, param), today |-> todayUTC(t),
     isCurrent |-> (param = todayUTC(t)),
     status |-> 0, cacheHit |-> FALSE, queried |-> FALSE, threw |-> FALSE, body |-> NONE]

DateResponse(fn, param, status, body) ==
    [fn |-> fn, done |-> TRUE, step |-> "responded", param |-> param, cacheKey |-> NONE,
     today |-> NoDate, isCurrent |-> FALSE,
     status |-> status, cacheHit |-> FALSE, queried |-> FALSE, threw |-> FALSE, body |-> body]

\* The result lists the handler's query may return.
DateQuery(fn, db, d) ==
    IF fn = "GET /api/trending" THEN getTrendingRepos(db, d)
    ELSE getLanguageDistribution(db, d)

DateRequest(fn) ==
    /\ call.done
    /\ \E param \in DayParams :
          call' = IF ~isValidDate(param)
                  THEN DateResponse(fn, param, 400, [error |-> "Invalid date format"])
                  ELSE DatePending(fn, param, now)
    /\ UNCHANGED <<now, archive, kv>>
    /\ UNCHANGED scrapeVars

AtDate(fn, step) == call.fn = fn /\ ~call.done /\ call.step = step

\* await kv.get(cacheKey), part_010 33: outside the try blocks.
DateKvGet(fn) ==
    /\ AtDate(fn, "kv.get")
    /\ \E getFails \in BOOLEAN :
          call' = IF getFails THEN Rejects(call)
                  ELSE IF KvLive(kv, call.cacheKey, now)
                  THEN [Responds(call, 200, kv[call.cacheKey].value) EXCEPT !.cacheHit = TRUE]
                  ELSE [call EXCEPT !.step = "query"]
    /\ UNCHANGED <<now, archive, kv>>
    /\ UNCHANGED scrapeVars

\* The query in its try block, part_010 62-81.
DateQueryStep(fn) ==
    /\ AtDate(fn, "query")
    /\ \E queryFails \in BOOLEAN :
          IF queryFails
          THEN call' = [Responds(call, 500, [error |-> "Database query failed"])
                           EXCEPT !.queried = TRUE]
          ELSE \E results \in DateQuery(fn, archive, call.param) :
                  call' = IF Cacheable(results)
                          THEN [call EXCEPT !.step = "kv.put", !.queried = TRUE,
                                            !.body = results]
                          ELSE [Responds(call, 200, results) EXCEPT !.queried = TRUE]
    /\ UNCHANGED <<now, archive, kv>>
    /\ UNCHANGED scrapeVars

\* await kv.put(cacheKey, json, isToday ? {expirationTtl} : undefined) in its
\* try block, part_010 84-90; the response follows.
DateKvPut(fn) ==
    /\ AtDate(fn, "kv.put")
    /\ \E putFails \in BOOLEAN :
          kv' = IF putFails THEN kv
                ELSE IF call.isCurrent
                THEN KvPut(kv, call.cacheKey, call.body, TODAY_TTL_SECONDS, now)
                ELSE KvPutNoTtl(kv, call.cacheKey, call.body, now)
    /\ call' = Responds(call, 200, call.body)
    /\ UNCHANGED <<now, archive>>
    /\ UNCHANGED scrapeVars

GetByDate(fn) ==
    \/ DateRequest(fn)
    \/ DateKvGet(fn)
    \/ DateQueryStep(fn)
    \/ DateKvPut(fn)

GetTrending == GetByDate("GET /api/trending")

GetLanguages == GetByDate("GET /api/languages")

\* Sunday 23:30 UTC; the week's rows up to Saturday are in the archive, or none.
ReadApiInit ==
    /\ now = (WeekMonday + 7) * DAY_SECONDS - HALF_HOUR
    /\ archive \in {{}, RowsOn("o", "a", WeekMonday..(WeekMonday + 5), 1)}
    /\ kv = [k \in ReadKeys |-> NoEntry]
    /\ Quiescent
    /\ call = NoCall

\* persistRepos(db, repos, date) of a run for the Sunday, begun on that day or
\* called with it as targetDate: its db.batch commits, before, between or after
\* the awaits of a request and before or after midnight.
ListingCommits ==
    /\ archive' = persistRepos(archive, parseTrendingPage(ListingPage), WeekMonday + 6,
                               FALSE).db
    /\ archive' # archive
    /\ UNCHANGED <<now, kv, call>>
    /\ UNCHANGED scrapeVars

NextReadApi ==
    \/ GetTrending
    \/ GetLanguages
    \/ GetWeek
    \/ GetLanguagesWeek
    \/ ListingCommits
    \/ WeekTick

ReadApiSpec == ReadApiInit /\ [][NextReadApi]_vars

\* ================================================================ one date, one run at a time
\* Scheduled invocations of runScrapeWithRetry, each returning before the next
\* starts, against a counter store whose get, put and delete never reject; no
\* time passes, so no key expires.
KvOps == {"kv.get", "kv.put", "kv.delete"}

KvAnswered ==
    \A p \in Procs :
        Len(trace'[p]) > Len(trace[p]) =>
            ~(Last(trace'[p]).op \in KvOps /\ Last(trace'[p]).failed)

NextSequential ==
    /\ \/ \E p \in Procs : ScheduledRun(p)
       \/ \E p \in Procs : StepOn(p, RerunPages)
    /\ KvAnswered

SequentialSpec == Init /\ [][NextSequential]_vars

\* ================================================================ topic fan-out
\* src/src/lib/scraper/topics.ts, enrichReposWithTopics, request by request.
\* The call record holds the loop index i, whether the loop is suspended in
\* await Promise.all, and per record: the state of its fetchRepoTopics request,
\* how often one was sent, and its topics.
TopicsInit ==
    /\ now = 0
    /\ archive = {}
    /\ kv = [k \in KvKeys |-> NoEntry]
    /\ Quiescent
    /\ call \in {[fn |-> "enrichReposWithTopics", done |-> FALSE, n |-> n, i |-> 0,
                  awaiting |-> FALSE,
                  request |-> [k \in 1..n |-> "unsent"],
                  sent |-> [k \in 1..n |-> 0],
                  topics |-> [k \in 1..n |-> NONE],
                  failedCount |-> 0] : n \in 0..MaxRepos}

InTopics ==
    /\ ~call.done
    /\ \/ call.fn = "enrichReposWithTopics"
       \/ call.fn = "runScrapePipeline" /\ call.stage = "topics"

\* Lines 57-60: the loop test holds; chunk.map starts every request of the chunk.
StartChunk ==
    /\ InTopics
    /\ ~call.awaiting
    /\ call.i < call.n
    /\ LET chunk == ChunkOf(call.i, call.n)
       IN  call' = [call EXCEPT
                       !.awaiting = TRUE,
                       !.request = [k \in 1..call.n |->
                                       IF k \in chunk THEN "outstanding" ELSE @[k]],
                       !.sent = [k \in 1..call.n |->
                                    IF k \in chunk THEN @[k] + 1 ELSE @[k]]]
    /\ UNCHANGED <<now, archive, kv>>
    /\ UNCHANGED scrapeVars

\* Lines 61-69: one request settles; a rejection is caught in its own callback.
SettleRequest ==
    /\ InTopics
    /\ \E k \in 1..call.n, ok \in BOOLEAN :
          /\ call.request[k] = "outstanding"
          /\ call' = [call EXCEPT
                         !.request[k] = IF ok THEN "fulfilled" ELSE "rejected",
                         !.topics[k] = IF ok THEN "some" ELSE "empty",
                         !.failedCount = IF ok THEN @ ELSE @ + 1]
    /\ UNCHANGED <<now, archive, kv>>
    /\ UNCHANGED scrapeVars

\* Line 59: Promise.all resolves when every callback of the chunk has returned.
ChunkSettled ==
    /\ InTopics
    /\ call.awaiting
    /\ \A k \in 1..call.n : call.request[k] # "outstanding"
    /\ call' = [call EXCEPT !.awaiting = FALSE, !.i = @ + TOPICS_FETCH_CONCURRENCY]
    /\ UNCHANGED <<now, archive, kv>>
    /\ UNCHANGED scrapeVars

\* Lines 53, 57, 81: nothing (left) to do, the repos are returned.
TopicsReturn ==
    /\ InTopics
    /\ call.fn = "enrichReposWithTopics"
    /\ ~call.awaiting
    /\ call.i >= call.n
    /\ call' = [call EXCEPT !.done = TRUE]
    /\ UNCHANGED <<now, archive, kv>>
    /\ UNCHANGED scrapeVars

NextTopics ==
    \/ StartChunk
    \/ SettleRequest
    \/ ChunkSettled
    \/ TopicsReturn

TopicsSpec == TopicsInit /\ [][NextTopics]_vars

\* ================================================================ one pipeline run and its network
\* src/src/lib/scraper/pipeline.ts, runScrapePipeline, with each outbound
\* request as a state of its own: a request is outstanding until the remote end
\* answers or, where the code arms one, its abort timer fires.
\* fetchTrendingPage (retry.ts 159-190) passes controller.signal and aborts
\* after TIMEOUT_MS; fetchRepoTopics (topics.ts 27-33) passes headers only.
PipelineRunInit ==
    /\ now = 0
    /\ archive = {}
    /\ kv = [k \in KvKeys |-> NoEntry]
    /\ Quiescent
    /\ call \in {[fn |-> "runScrapePipeline", done |-> FALSE, stage |-> "delay",
                  date |-> todayUTC(0), fetch |-> "unsent", batch |-> "unsent",
                  success |-> FALSE, errorType |-> NONE,
                  n |-> n, i |-> 0, awaiting |-> FALSE,
                  request |-> [k \in 1..n |-> "unsent"],
                  sent |-> [k \in 1..n |-> 0],
                  topics |-> [k \in 1..n |-> NONE],
                  failedCount |-> 0] : n \in 0..MaxRepos}

InRun(stage) == call.fn = "runScrapePipeline" /\ ~call.done /\ call.stage = stage

RunFails(errorType) ==
    call' = [call EXCEPT !.done = TRUE, !.stage = "failed", !.errorType = errorType]

\* pipeline.ts 38, retry.ts 160-164: the jitter delay ends, the abort timer is
\* armed and the request for the trending page is sent with the signal.
RunDelayElapsed ==
    /\ InRun("delay")
    /\ call' = [call EXCEPT !.stage = "fetch", !.fetch = "outstanding"]
    /\ UNCHANGED <<now, archive, kv>>
    /\ UNCHANGED scrapeVars

\* retry.ts 164-179: the remote end answers, with a page or a non-200 status.
RunFetchResponds ==
    /\ InRun("fetch")
    /\ call.fetch = "outstanding"
    /\ \E ok \in BOOLEAN :
          IF ok
          THEN call' = [call EXCEPT !.stage = "parse", !.fetch = "responded"]
          ELSE call' = [call EXCEPT !.done = TRUE, !.stage = "failed",
                                    !.fetch = "responded", !.errorType = "fetch_error"]
    /\ UNCHANGED <<now, archive, kv>>
    /\ UNCHANGED scrapeVars

\* retry.ts 161, 180-186: the timer aborts the request after TIMEOUT_MS.
RunFetchAborted ==
    /\ InRun("fetch")
    /\ call.fetch = "outstanding"
    /\ call' = [call EXCEPT !.done = TRUE, !.stage = "failed",
                            !.fetch = "aborted", !.errorType = "fetch_error"]
    /\ UNCHANGED <<now, archive, kv>>
    /\ UNCHANGED scrapeVars

\* pipeline.ts 51-58: a page without rows is a parse error.
RunParse ==
    /\ InRun("parse")
    /\ IF call.n = 0 THEN RunFails("parse_error")
                     ELSE call' = [call EXCEPT !.stage = "topics"]
    /\ UNCHANGED <<now, archive, kv>>
    /\ UNCHANGED scrapeVars

\* pipeline.ts 61-70, topics.ts 57, 81, part_007 25-47: the loop over the chunks
\* has ended; persistRepos prepares its statements and sends the batch.
RunTopicsReturn ==
    /\ InRun("topics")
    /\ ~call.awaiting
    /\ call.i >= call.n
    /\ call' = [call EXCEPT !.stage = "persist", !.batch = "outstanding"]
    /\ UNCHANGED <<now, archive, kv>>
    /\ UNCHANGED scrapeVars

\* The records of the run as they reach persistRepos.
RunRepos(c) ==
    [k \in 1..c.n |-> [repo_owner |-> "o", repo_name |-> "r" \o ToString(k),
                       total_stars |-> 1, stars_today |-> 1, topics |-> c.topics[k]]]

\* part_007 47-60, pipeline.ts 68-94: the database answers the batch: it has
\* committed one row per record under the date of the run, or it rejects.
RunBatchAnswers ==
    /\ InRun("persist")
    /\ call.batch = "outstanding"
    /\ \E batchFails \in BOOLEAN :
          LET r == persistRepos(archive, RunRepos(call), call.date, batchFails)
          IN  /\ archive' = r.db
              /\ call' = IF r.threw
                         THEN [call EXCEPT !.done = TRUE, !.stage = "failed",
                                           !.batch = "rejected",
                                           !.errorType = "persist_error"]
                         ELSE [call EXCEPT !.done = TRUE, !.stage = "done",
                                           !.batch = "committed", !.success = TRUE]
    /\ UNCHANGED <<now, kv>>
    /\ UNCHANGED scrapeVars

\* What the run itself and its timer do.  The remote ends and the database owe
\* nothing: while a request or the batch is unanswered and no timer is armed
\* for it, the run has no step of its own.
RunLocalStep ==
    \/ RunDelayElapsed
    \/ RunFetchAborted
    \/ RunParse
    \/ StartChunk
    \/ ChunkSettled
    \/ RunTopicsReturn

NextPipelineRun ==
    \/ RunLocalStep
    \/ RunFetchResponds
    \/ SettleRequest
    \/ RunBatchAnswers

PipelineRunSpec == PipelineRunInit /\ [][NextPipelineRun]_vars /\ WF_vars(RunLocalStep)

\* ================================================================ claims
KvOpNames == {"kv.get", "kv.put", "kv.delete"}

StageNames == {"randomDelay", "fetchTrendingPage", "parseTrendingPage",
               "enrichReposWithTopics", "persistRepos"}

\* p took this step and left `label`
Leaves(p, label) == pc[p] = label /\ pc'[p] # label

NoOpIn(tr, ops) == \A i \in 1..Len(tr) : tr[i].op \notin ops

DateHasRow(d) == \E r \in archive : r.trending_date = d

CounterLive(d) ==
    /\ kv[RETRY_KV_PREFIX \o ToString(d)].present
    /\ now < kv[RETRY_KV_PREFIX \o ToString(d)].writtenAt + 172800

\* C1: when the has-data query answers and the archive holds a row for D, the
\* invocation ends at once with success, skipped, already_has_data; it has made
\* no counter call and no pipeline call, and the step changes neither store.
C1_SkipWhenDateHasData ==
    [][\A p \in Procs :
        (Leaves(p, "hasDataForDate") /\ pc'[p] # "threw" /\ DateHasRow(date[p]))
        => /\ pc'[p] = "done"
           /\ result'[p].success
           /\ result'[p].skipped
           /\ result'[p].skipReason = "already_has_data"
           /\ result'[p].date = date[p]
           /\ NoOpIn(trace'[p], KvOpNames \cup StageNames \cup {"db.batch"})
           /\ kv' = kv
           /\ archive' = archive]_vars

C1_Witness ==
    \E p \in Procs :
        /\ pc[p] = "done"
        /\ result[p].skipReason = "already_has_data"
        /\ DateHasRow(date[p])

\* C2: when the archive has no row for D and the counter read is >= 2, the
\* invocation ends with success=false, skipped, max_retries_exceeded, without a
\* pipeline call and without changing the counter store or the archive.
C2_GapWhenMaxRetries ==
    [][\A p \in Procs :
        (Leaves(p, "getRetryCount") /\ retryCount'[p] >= 2)
        => /\ pc'[p] = "done"
           /\ ~result'[p].success
           /\ result'[p].skipped
           /\ result'[p].skipReason = "max_retries_exceeded"
           /\ NoOpIn(trace'[p], StageNames \cup {"db.batch", "kv.put", "kv.delete"})
           /\ kv' = kv
           /\ archive' = archive]_vars

C2_Witness ==
    \E p \in Procs :
        /\ pc[p] = "done"
        /\ result[p].skipReason = "max_retries_exceeded"
        /\ retryCount[p] >= 2
        /\ ~DateHasRow(date[p])

\* C3: when the pipeline run fails after a counter read of c < 2, the invocation
\* puts c+1 under scrape_retry:D with a TTL of 48 hours (the store then holds it,
\* unless the put itself failed) and returns success=false, skipped=false,
\* recovered=false, attempt=c+1; no step of it since the failure changes the archive.
C3_FailureIncrementsCounter ==
    [][\A p \in Procs :
        /\ (pc'[p] = "setRetryCount" /\ pc[p] # "setRetryCount")
           => (~pres'[p].success /\ retryCount[p] < 2 /\ archive' = archive)
        /\ (pc[p] = "setRetryCount" /\ pc'[p] = "done")
           => LET e == trace'[p][Len(trace'[p])]
                  key == RETRY_KV_PREFIX \o ToString(date[p])
              IN  /\ e.op = "kv.put"
                  /\ e.key = key
                  /\ e.value = ToString(retryCount[p] + 1)
                  /\ e.ttl = 172800
                  /\ ~e.failed => kv'[key] = [present |-> TRUE, value |-> e.value,
                                              writtenAt |-> now, expiresAt |-> now + 172800]
                  /\ e.failed => kv' = kv
                  /\ ~result'[p].success
                  /\ ~result'[p].skipped
                  /\ ~result'[p].recovered
                  /\ result'[p].attempt = retryCount[p] + 1
                  /\ archive' = archive
                  /\ \A i \in 1..Len(trace'[p]) :
                        trace'[p][i].op = "db.batch" => trace'[p][i].failed]_vars

C3_Witness ==
    \E p \in Procs :
        /\ pc[p] = "done"
        /\ retryCount[p] = 1
        /\ result[p].attempt = 2
        /\ ~result[p].success
        /\ kv[RETRY_KV_PREFIX \o ToString(date[p])].value = "2"
        /\ kv[RETRY_KV_PREFIX \o ToString(date[p])].expiresAt = now + 172800

\* C4: when the pipeline run succeeds after a counter read of c > 0, the
\* invocation deletes the counter of D and returns recovered=true, attempt=c+1;
\* after a read of 0 it returns recovered=false, attempt=1 and makes no counter
\* put or delete.
C4_SuccessClearsCounter ==
    [][\A p \in Procs :
        /\ (Leaves(p, "persistRepos") /\ kind[p] = "retry" /\ pres'[p].success
                /\ retryCount[p] > 0)
           => pc'[p] = "clearRetryCount"
        /\ (pc[p] = "clearRetryCount" /\ pc'[p] = "done")
           => LET e == trace'[p][Len(trace'[p])]
                  key == RETRY_KV_PREFIX \o ToString(date[p])
              IN  /\ retryCount[p] > 0
                  /\ e.op = "kv.delete"
                  /\ e.key = key
                  /\ ~e.failed => ~kv'[key].present
                  /\ result'[p].success
                  /\ result'[p].recovered
                  /\ result'[p].attempt = retryCount[p] + 1
        /\ (Leaves(p, "persistRepos") /\ kind[p] = "retry" /\ pres'[p].success
                /\ retryCount[p] = 0)
           => /\ pc'[p] = "done"
              /\ result'[p].success
              /\ ~result'[p].recovered
              /\ result'[p].attempt = 1
              /\ NoOpIn(trace'[p], {"kv.put", "kv.delete"})
              /\ kv' = kv]_vars

C4_Witness ==
    \E p \in Procs :
        /\ pc[p] = "done"
        /\ result[p].success
        /\ result[p].recovered
        /\ result[p].attempt = 2
        /\ ~kv[RETRY_KV_PREFIX \o ToString(date[p])].present

\* C5: when the counter read fails, the count is taken as 0 and the pipeline is
\* entered for D, whatever the store holds.
C5_ReadFailureFailsOpen ==
    [][\A p \in Procs :
        (Leaves(p, "getRetryCount") /\ trace'[p][Len(trace'[p])].failed)
        => /\ retryCount'[p] = 0
           /\ pc'[p] = "randomDelay"
           /\ pdate'[p] = date[p]
           /\ result'[p] = NoResult]_vars

C5_Witness ==
    \E p \in Procs :
        /\ pc[p] = "randomDelay"
        /\ kind[p] = "retry"
        /\ trace[p][Len(trace[p])].op = "kv.get"
        /\ trace[p][Len(trace[p])].failed
        /\ CounterLive(date[p])
        /\ kv[RETRY_KV_PREFIX \o ToString(date[p])].value = "2"

\* C6 as stated: an invocation begun after a confirmed gap for D that finds no
\* data for D, within the counter's lifetime, returns max_retries_exceeded and
\* never enters the pipeline.
C6_GapIsTerminal ==
    \A p \in Procs :
        (/\ afterGap[p]
         /\ CounterLive(date[p])
         /\ pc[p] \notin {"hasDataForDate", "threw"}
         /\ result[p].skipReason # "already_has_data")
        => /\ pc[p] \in {"getRetryCount", "done"}
           /\ pc[p] = "done" => result[p].skipReason = "max_retries_exceeded"
           /\ NoOpIn(trace[p], StageNames)

\* p took the step that ends its counter bookkeeping.
WroteCounter(p) == pc[p] \in {"setRetryCount", "clearRetryCount"} /\ pc'[p] = "done"

\* C6 amended: while nobody has put the counter of D below the limit or deleted
\* it since the gap was confirmed, an invocation begun after the confirmed gap
\* that has read the counter within its lifetime ends in max_retries_exceeded
\* and makes no pipeline call, whatever other invocations overlap it.  And the
\* invocation that first lowers or deletes the counter after the gap is one
\* whose counter read failed or one that had begun before the gap was confirmed.
C6_GapIsTerminalWhileCounterStands ==
    /\ [](\A p \in Procs :
            (/\ afterGap[p]
             /\ date[p] \notin gapLowered
             /\ CounterLive(date[p])
             /\ \E i \in 1..Len(trace[p]) : trace[p][i].op = "kv.get" /\ ~trace[p][i].failed)
            => /\ pc[p] = "done"
               /\ result[p].skipReason = "max_retries_exceeded"
               /\ ~result[p].success
               /\ NoOpIn(trace[p], StageNames \cup {"db.batch", "kv.put", "kv.delete"}))
    /\ [][gapLowered' # gapLowered
            => \E p \in Procs :
                  /\ WroteCounter(p)
                  /\ gapLowered' = gapLowered \cup {date[p]}
                  /\ HasFailed(p, "kv.get") \/ ~afterGap[p]]_vars

\* An invocation begun after the gap has confirmed it again while an invocation
\* that read no counter before the gap is still in its pipeline run.
C6_Witness ==
    \E p, q \in Procs :
        /\ afterGap[p]
        /\ pc[p] = "done"
        /\ result[p].skipReason = "max_retries_exceeded"
        /\ ~trace[p][Len(trace[p])].failed
        /\ date[p] \notin gapLowered
        /\ q # p
        /\ date[q] = date[p]
        /\ ~afterGap[q]
        /\ retryCount[q] = 0
        /\ ~HasFailed(q, "kv.get")
        /\ pc[q] \in StageNames

\* C7: the stage calls of a run are, in order, an initial part of delay, fetch,
\* parse, enrich, persist; a failed stage other than enrich is the last one; and
\* after a failed fetch or parse there is no enrich, persist or batch call.
\* While a topic request of the enrichment is unsettled no persist or batch
\* call has been made, and persist begins with every request settled.
IsStageCall(e) == e.op \in StageNames

StageCalls(p) == SelectSeq(trace[p], IsStageCall)

C7_StagesInOrder ==
    \A p \in Procs :
        LET st == StageCalls(p)
            order == <<"randomDelay", "fetchTrendingPage", "parseTrendingPage",
                       "enrichReposWithTopics", "persistRepos">>
        IN  /\ Len(st) <= 5
            /\ \A i \in 1..Len(st) : st[i].op = order[i]
            /\ \A i \in 1..Len(st) :
                  (st[i].failed /\ st[i].op # "enrichReposWithTopics") => i = Len(st)
            /\ (pc[p] \in StageNames /\ pc[p] # "randomDelay")
                  => (Len(st) > 0 /\ pc[p] = order[Len(st) + 1])
            /\ (\E i \in 1..Len(st) :
                    st[i].failed /\ st[i].op \in {"fetchTrendingPage", "parseTrendingPage"})
                  => NoOpIn(trace[p], {"enrichReposWithTopics", "persistRepos", "db.batch"})
            /\ \A i \in 1..Len(trace[p]) :
                  trace[p][i].op = "db.batch" => (i > 1 /\ trace[p][i - 1].op = "persistRepos")
            /\ pc[p] = "enrichReposWithTopics"
                  => /\ Unsettled(repos[p]) # {}
                     /\ NoOpIn(trace[p], {"enrichReposWithTopics", "persistRepos", "db.batch"})
            /\ pc[p] = "persistRepos"
                  => /\ Unsettled(repos[p]) = {}
                     /\ Len(st) = 4
                     /\ NoOpIn(trace[p], {"persistRepos", "db.batch"})

\* The run is about to persist: both topic requests have settled, one of them
\* rejected, and the four stages before were called in order.
C7_Witness ==
    \E p \in Procs :
        /\ pc[p] = "persistRepos"
        /\ Len(StageCalls(p)) = 4
        /\ Len(repos[p]) = 2
        /\ repos[p][1].topics = "empty"
        /\ repos[p][2].topics = "some"

\* C8: a failed run carries the tag of the stage that threw: fetch_error,
\* parse_error, persist_error for those stages and unknown_error for a failure
\* outside them (the jitter delay).
Threw(p, op) == \E i \in 1..Len(trace[p]) : trace[p][i].op = op /\ trace[p][i].failed

C8_ErrorTypeNamesStage ==
    \A p \in Procs :
        (pres[p] # NoResult /\ ~pres[p].success)
        => /\ pres[p].errorType \in {"fetch_error", "parse_error", "persist_error",
                                     "unknown_error"}
           /\ pres[p].errorType = "fetch_error" <=> Threw(p, "fetchTrendingPage")
           /\ pres[p].errorType = "parse_error" <=> Threw(p, "parseTrendingPage")
           /\ pres[p].errorType = "persist_error" <=> Threw(p, "persistRepos")
           /\ pres[p].errorType = "unknown_error" <=> Threw(p, "randomDelay")

C8_Witness ==
    \E p \in Procs :
        /\ pres[p].errorType = "persist_error"
        /\ Threw(p, "persistRepos")

\* C9: a run never ends in an exception; it ends in a success result or in a
\* failure result with repoCount=0, rowsWritten=0, a message and an error type,
\* and the result's date is the target date, or the UTC day of the call when no
\* target was given.
C9_StructuredResult ==
    \A p \in Procs :
        /\ pc[p] = "threw" => NoOpIn(trace[p], StageNames)
        /\ pres[p] # NoResult
           => /\ pres[p].date = IF target[p] = NoDate THEN invokedAt[p] \div 86400
                                ELSE target[p]
              /\ pres[p].success
                 => (pres[p].error = NONE /\ pres[p].errorType = NONE
                       /\ pres[p].repoCount >= 0 /\ pres[p].rowsWritten >= 0)
              /\ ~pres[p].success
                 => (pres[p].repoCount = 0 /\ pres[p].rowsWritten = 0
                       /\ pres[p].error # NONE /\ pres[p].errorType # NONE)

C9_Witness ==
    \E p \in Procs :
        /\ kind[p] = "pipeline"
        /\ target[p] = NoDate
        /\ pres[p] # NoResult
        /\ ~pres[p].success
        /\ pres[p].date = 0
        /\ now \div 86400 = 1

\* C10: whichever topic requests fail, one, several or all of them, each
\* step of the enrich stage keeps the parsed records (count, order, identity),
\* produces no failure result and leaves the run in the stage or, with the last
\* request settled, at persist; a run that fails after it fails with
\* persist_error, and a batch that succeeds holds one statement per parsed
\* record and leaves a row for each.
Identity(r) == <<r.repo_owner, r.repo_name, r.total_stars>>

EnrichFailed(tr) ==
    \E i \in 1..Len(tr) : tr[i].op = "enrichReposWithTopics" /\ tr[i].n > 0

\* a topic request of p settled
TopicSettles(p) == pc[p] = "enrichReposWithTopics" /\ repos'[p] # repos[p]

C10_EnrichFailureNotFatal ==
    [][\A p \in Procs :
        /\ TopicSettles(p)
           => /\ pc'[p] \in {"enrichReposWithTopics", "persistRepos"}
              /\ pc'[p] = "persistRepos" <=> Unsettled(repos'[p]) = {}
              /\ pres'[p] = NoResult
              /\ Len(repos'[p]) = Len(repos[p])
              /\ \A i \in 1..Len(repos[p]) : Identity(repos'[p][i]) = Identity(repos[p][i])
              /\ \A i \in 1..Len(repos[p]) :
                    Identity(repos[p][i]) = <<html[p][i].href[1], html[p][i].href[2],
                                              html[p][i].stars>>
        /\ (Leaves(p, "persistRepos") /\ EnrichFailed(trace'[p]))
           => /\ ~pres'[p].success => pres'[p].errorType = "persist_error"
              /\ pres'[p].success
                 => /\ pres'[p].repoCount = Len(html[p])
                    /\ trace'[p][Len(trace'[p])].n = Len(html[p])
                    /\ \A i \in 1..Len(html[p]) :
                          \E r \in archive' :
                             /\ r.repo_owner = html[p][i].href[1]
                             /\ r.repo_name = html[p][i].href[2]
                             /\ r.trending_date = pdate[p]]_vars

C10_Witness ==
    \E p \in Procs :
        /\ pres[p].success
        /\ pres[p].repoCount = 2
        /\ \E i \in 1..Len(trace[p]) :
              trace[p][i].op = "enrichReposWithTopics" /\ trace[p][i].n = 2

\* ------------------------------------------------------------ persistence
SameTriple(r, s) ==
    /\ r.repo_owner = s.repo_owner
    /\ r.repo_name = s.repo_name
    /\ r.trending_date = s.trending_date

\* the last record of the list with the repository of record i
IsLastOf(rs, i) ==
    \A j \in 1..Len(rs) :
        (rs[j].repo_owner = rs[i].repo_owner /\ rs[j].repo_name = rs[i].repo_name)
            => j <= i

\* C11: after every persist the archive holds at most one row per (owner, name,
\* trending_date); a persisted record's triple has exactly one row, carrying the
\* values of the last record of the batch with that triple (an earlier row with
\* the triple is replaced), and rows of other triples are left as they were.
C11_OneRowPerTriple ==
    [][/\ \A r \in archive', x \in archive' : SameTriple(r, x) => r = x
       /\ (call'.fn = "persistRepos" /\ ~call'.threw)
          => /\ \A i \in 1..Len(call'.repos) :
                   LET rec == call'.repos[i]
                       rows == {r \in archive' : /\ r.repo_owner = rec.repo_owner
                                                  /\ r.repo_name = rec.repo_name
                                                  /\ r.trending_date = call'.date}
                   IN  /\ Cardinality(rows) = 1
                       /\ IsLastOf(call'.repos, i)
                             => \A r \in rows : /\ r.total_stars = rec.total_stars
                                                 /\ r.stars_today = rec.stars_today
             /\ \A r \in archive :
                   (\A i \in 1..Len(call'.repos) :
                        ~(/\ r.repo_owner = call'.repos[i].repo_owner
                          /\ r.repo_name = call'.repos[i].repo_name
                          /\ r.trending_date = call'.date))
                   => r \in archive']_vars

C11_Witness ==
    /\ call.fn = "persistRepos"
    /\ call.overwrote
    /\ Len(call.repos) = 2
    /\ Cardinality(archive) >= 3

\* C12: persisting the same list for the same date a second time, right after
\* it was persisted, leaves every row of the archive as it was.
C12_PersistTwiceIsPersistOnce ==
    [][(/\ call.fn = "persistRepos"
        /\ ~call.threw
        /\ call'.fn = "persistRepos"
        /\ ~call'.threw
        /\ call'.repos = call.repos
        /\ call'.date = call.date)
       => archive' = archive]_vars

C12_Witness ==
    /\ call.fn = "persistRepos"
    /\ call.times = 2
    /\ Len(call.repos) = 2
    /\ call.repos[1].repo_name # call.repos[2].repo_name
    /\ \E r \in archive : r.trending_date = call.date /\ r.total_stars = 2

\* ----------------------------------------------------------------- parser
ParsedPage == call.fn = "parseTrendingPage" /\ call.done

\* record i of the result is the record of row i of the page
RecordOfRow(rec, row) ==
    /\ rec.repo_owner = row.href[1]
    /\ rec.repo_name = row.href[2]
    /\ rec.total_stars = row.stars
    /\ rec.stars_today = row.today

\* C13 as stated: for a page with at least one row the parse returns one record
\* per row, in page order; for a page with no row it throws 'no repository rows
\* found'; it never returns an empty list.
C13_OneRecordPerRow ==
    ParsedPage
    => /\ Len(call.arg) >= 1
          => /\ ~call.ret.threw
             /\ Len(call.ret.repos) = Len(call.arg)
             /\ \A i \in 1..Len(call.arg) : RecordOfRow(call.ret.repos[i], call.arg[i])
       /\ Len(call.arg) = 0
          => /\ call.ret.threw
             /\ call.ret.error = NoRowsError
       /\ ~call.ret.threw => call.ret.repos # <<>>

\* C13 amended: the same for a page each of whose rows has a heading link with
\* an href of at least two path segments; a page with a row that lacks one makes
\* the parse throw (another error) and return no record.
C13_OneRecordPerIdentifiableRow ==
    ParsedPage
    => LET identifiable == \A i \in 1..Len(call.arg) : Len(call.arg[i].href) >= 2
       IN  /\ (Len(call.arg) >= 1 /\ identifiable)
              => /\ ~call.ret.threw
                 /\ Len(call.ret.repos) = Len(call.arg)
                 /\ \A i \in 1..Len(call.arg) :
                       RecordOfRow(call.ret.repos[i], call.arg[i])
           /\ Len(call.arg) = 0
              => /\ call.ret.threw
                 /\ call.ret.error = NoRowsError
           /\ (Len(call.arg) >= 1 /\ ~identifiable)
              => /\ call.ret.threw
                 /\ call.ret.error # NoRowsError
                 /\ call.ret.repos = <<>>
           /\ ~call.ret.threw => call.ret.repos # <<>>

C13_Witness ==
    /\ ParsedPage
    /\ ~call.ret.threw
    /\ Len(call.arg) = 2
    /\ Len(call.ret.repos) = 2
    /\ call.ret.repos[1].repo_name = "b"
    /\ call.ret.repos[2].repo_name = "a"

RECURSIVE PowerOfTen(_)
PowerOfTen(n) == IF n = 0 THEN 1 ELSE 10 * PowerOfTen(n - 1)

\* The leading number of a text of digits and dots, read as the fraction
\* num/den; none when the text begins with no number.
LeadingNumber(t) ==
    LET whole == LeadingDigits(t)
        rest == SubSeq(t, Len(whole) + 1, Len(t))
        frac == IF rest # <<>> /\ Head(rest) = "." THEN LeadingDigits(Tail(rest)) ELSE <<>>
    IN  [none |-> whole = <<>> /\ frac = <<>>,
         num |-> DecimalValue(whole \o frac),
         den |-> PowerOfTen(Len(frac))]

\* C14: parseFormattedNumber never fails and always returns a non-negative
\* integer: a text without a leading number yields 0, a trimmed text of digits
\* and dots followed by k or K yields its leading number times 1000, rounded,
\* and any other text yields the integer its digits and dots begin with.
C14_FormattedNumberRule ==
    (call.fn = "parseFormattedNumber" /\ call.done)
    => LET text == Trim(call.arg)
           digitsAndDots == SelectSeq(text, IsDigitOrDot)
           lead == LeadingDigits(digitsAndDots)
       IN  /\ ~call.ret.nan
           /\ call.ret.value >= 0
           /\ lead = <<>> /\ ~KMatch(text) => call.ret.value = 0
           /\ (\A i \in 1..Len(text) : ~IsDigit(text[i])) => call.ret.value = 0
           /\ (~KMatch(text) /\ lead # <<>>) => call.ret.value = DecimalValue(lead)
           /\ KMatch(text)
              => LET number == LeadingNumber(SubSeq(text, 1, Len(text) - 1))
                 IN  call.ret.value = IF number.none THEN 0
                                      ELSE (2000 * number.num + number.den)
                                              \div (2 * number.den)

\* ---------------------------------------------------------------- C15
HasRowOn(r, d) == \E x \in archive : RepoKey(x) = RepoKey(r) /\ x.trending_date = d

\* The request holds what the enrichment fn made of its list.
Enriched(fn) ==
    /\ call.fn = "getTrendingReposWithStreaks"
    /\ ~call.threw
    /\ fn \in call.applied

\* This step is the enrichment fn of a request, and its query answered on the
\* archive of the step.
Answered(fn) == AtTrending({fn}) /\ call' # call /\ fn \in call'.applied

\* The number of consecutive days D, D-1, ... inside [D-60, D] on which r has a row.
ConsecutiveDays(r, d) ==
    LET days == {x.trending_date : x \in {y \in archive : RepoKey(y) = RepoKey(r)}}
    IN  CHOOSE k \in 0..(STREAK_LOOKBACK_DAYS + 1) :
            /\ k = STREAK_LOOKBACK_DAYS + 1 \/ (d - k) \notin days
            /\ \A i \in 0..(k - 1) : (d - i) \in days

\* C15: for target date D, calculateStreaks sets each repo's streak to the number
\* of consecutive calendar days D, D-1, D-2, ... on which the repo has an archive
\* row inside [D-60, D], stopping at the first missing day, with a minimum of 1.
C15_StreakIsConsecutiveRun ==
    [][Answered("calculateStreaks") =>
          \A i \in 1..Len(call'.repos) :
              call'.repos[i].streak =
                  <<MathMax(1, ConsecutiveDays(call.repos[i], call.date))>>]_vars

\* A run cut by a missing day and a run longer than the window were both counted.
C15_Witness ==
    /\ Enriched("calculateStreaks")
    /\ \E i, j \in 1..Len(call.repos) :
          /\ call.repos[i].streak = <<STREAK_LOOKBACK_DAYS + 1>>
          /\ HasRowOn(call.repos[i], call.date - STREAK_LOOKBACK_DAYS - 1)
          /\ call.repos[j].streak = <<2>>
          /\ HasRowOn(call.repos[j], call.date - 3)

\* ---------------------------------------------------------------- C16
HasRowBefore(r, d) == \E x \in archive : RepoKey(x) = RepoKey(r) /\ x.trending_date < d

\* C16: for target date D, detectNewEntries sets is_new_entry to true on a repo
\* iff the archive has no row for that owner and name with trending_date < D,
\* and to false on every other repo of the list.
C16_NewEntryIffNoEarlierRow ==
    [][Answered("detectNewEntries") =>
          \A i \in 1..Len(call'.repos) :
              call'.repos[i].is_new_entry =
                  <<~HasRowBefore(call.repos[i], call.date)>>]_vars

\* One listing held a first-time repo (that trends again later) and a returning one.
C16_Witness ==
    /\ Enriched("detectNewEntries")
    /\ \E i, j \in 1..Len(call.repos) :
          /\ call.repos[i].is_new_entry = <<TRUE>>
          /\ HasRowOn(call.repos[i], call.date + 1)
          /\ call.repos[j].is_new_entry = <<FALSE>>
          /\ HasRowBefore(call.repos[j], call.date)

\* ---------------------------------------------------------------- C17
PointsInWindow(r, d) ==
    {x \in archive : /\ RepoKey(x) = RepoKey(r)
                     /\ x.trending_date >= d - STAR_HISTORY_LOOKBACK_DAYS
                     /\ x.trending_date <= d}

\* C17: for target date D, fetchStarHistory attaches star_history to a repo only
\* if the repo has at least 2 points; the attached list is sorted ascending by
\* date and every point's date lies in [D-365, D]; a repo with a single point
\* gets no star_history.
C17_StarHistoryWithinWindow ==
    [][Answered("fetchStarHistory") =>
          \A i \in 1..Len(call'.repos) :
              LET r == call'.repos[i]
              IN  /\ Cardinality(PointsInWindow(r, call.date)) < 2 => r.star_history = <<>>
                  /\ r.star_history # <<>> =>
                        LET h == r.star_history[1]
                        IN  /\ Len(h) >= 2
                            /\ \A k \in 1..(Len(h) - 1) : h[k].date < h[k + 1].date
                            /\ \A k \in 1..Len(h) :
                                  /\ h[k].date >= call.date - STAR_HISTORY_LOOKBACK_DAYS
                                  /\ h[k].date <= call.date]_vars

\* ---------------------------------------------------------------- C18
RowsInRange(k) ==
    {x \in archive : /\ RepoKey(x) = k
                     /\ x.trending_date >= call.weekStart
                     /\ x.trending_date <= call.weekEnd}

ReposInRange == {RepoKey(x) : x \in {y \in archive : RowsInRange(RepoKey(y)) # {}}}

\* The entry e aggregates the in-range rows of its repository.
AggregatesItsRows(e) ==
    LET rows == RowsInRange(RepoKey(e))
    IN  /\ rows # {}
        /\ e.appearances = Cardinality(rows)
        /\ e.total_stars_gained = SumStarsToday(rows)
        /\ \E x \in rows : x.stars_today = e.max_stars_today
        /\ \A x \in rows : x.stars_today <= e.max_stars_today
        /\ \E x \in rows : /\ \A y \in rows : y.trending_date <= x.trending_date
                           /\ e.total_stars = x.total_stars

WeeklyAggregation ==
    /\ \A k \in ReposInRange :
          Cardinality({i \in 1..Len(call.repos) : RepoKey(call.repos[i]) = k}) = 1
    /\ \A i \in 1..Len(call.repos) : AggregatesItsRows(call.repos[i])
    /\ \A i \in 1..(Len(call.repos) - 1) :
          \/ call.repos[i].appearances > call.repos[i + 1].appearances
          \/ /\ call.repos[i].appearances = call.repos[i + 1].appearances
             /\ call.repos[i].total_stars_gained >= call.repos[i + 1].total_stars_gained

\* C18: for a range [start, end], getWeeklyTrendingRepos returns one entry per
\* repo having a row in range, with appearances = the number of its rows in
\* range, total_stars_gained = the sum of its stars_today, max_stars_today =
\* their maximum and metadata from its most recent in-range row; entries are
\* ordered by appearances descending, ties broken by total_stars_gained descending.
C18_WeeklyAggregate ==
    call.fn = "getWeeklyTrendingRepos" => ~call.threw /\ WeeklyAggregation

\* ---------------------------------------------------------------- C19
\* The number of distinct dates with any row in the week of the request.
DaysWithData(param) ==
    Cardinality({x.trending_date :
                    x \in InRange(archive, getMondayOfWeek(param),
                                  getSundayOfWeek(getMondayOfWeek(param)))})

\* The handler has answered a path that holds a date.
IsWeekResponse(c) ==
    c.fn = "GET /api/trending/week" /\ c.done /\ ~c.threw /\ c.status # 400

\* C19: the weekly response is marked partial iff the week's end date is after
\* the current UTC date or days_with_data < 7, where days_with_data is the number
\* of distinct dates with any row in the range (0 when the range has no rows).
C19_PartialFlag ==
    [][(call' # call /\ IsWeekResponse(call')) =>
          /\ call'.status = 200
          /\ call'.body.partial =
                (\/ getSundayOfWeek(getMondayOfWeek(call'.param)) > todayUTC(now)
                 \/ DaysWithData(call'.param) < 7)]_vars

\* ---------------------------------------------------------------- C20
Applied == call.fn = "applyPercentages" /\ call.done

\* C20: for every non-empty list of language buckets with positive total count
\* the returned percentages, in integer tenths, sum to exactly 1000, never 999
\* or 1001; an input whose total count is 0 yields an empty list.
C20_PercentagesSumTo1000 ==
    Applied =>
        /\ SumCounts(call.arg) > 0 =>
              /\ Len(call.ret) = Len(call.arg)
              /\ SumTenths(call.ret) = 1000
        /\ SumCounts(call.arg) = 0 => call.ret = <<>>

\* Three buckets of one repository each: 33.4, 33.3 and 33.3, where flooring
\* alone gives 99.9.
C20_Witness ==
    /\ Applied
    /\ Len(call.arg) = 3
    /\ \A i \in 1..3 : call.arg[i].count = 1
    /\ {call.ret[i].tenths : i \in 1..3} = {333, 334}
    /\ SumTenths(call.ret) = 1000

\* ---------------------------------------------------------------- C21
CronAnswered == call.fn = "GET /api/cron" /\ call.done

\* C21: GET /api/cron answers 403 and starts no scrape unless the request
\* carries X-Cron-Source: scheduled; otherwise it answers 200 iff the
\* retry-aware result is a success or a skip other than max_retries_exceeded,
\* and 500 for a failed pipeline run or a confirmed gap.
C21_CronStatus ==
    /\ (\E p \in Procs : pc[p] # "idle") =>
          call.fn = "GET /api/cron" /\ call.header = "scheduled"
    /\ CronAnswered /\ call.header # "scheduled" => call.status = 403
    /\ CronAnswered /\ call.header = "scheduled" =>
          LET r == call.result
          IN  /\ call.status \in {200, 500}
              /\ call.status = 200 <=>
                    /\ ~call.threw
                    /\ \/ r.success
                       \/ r.skipped /\ r.skipReason # "max_retries_exceeded"
              /\ (~call.threw /\ ~r.skipped /\ ~r.success) => call.status = 500
              /\ (~call.threw /\ r.skipReason = "max_retries_exceeded") =>
                    call.status = 500

\* A scheduled request was answered 500 for a confirmed gap.
C21_Witness ==
    /\ CronAnswered
    /\ call.header = "scheduled"
    /\ call.status = 500
    /\ call.result.skipped
    /\ call.result.skipReason = "max_retries_exceeded"

\* ---------------------------------------------------------------- C22
\* p's invocation has returned from a pipeline run that succeeded
PipelineSucceeded(p) ==
    /\ pc[p] = "done"
    /\ kind[p] = "retry"
    /\ result[p].success
    /\ ~result[p].skipped

KvCallFailed(p) ==
    \E i \in 1..Len(trace[p]) : trace[p][i].op \in KvOpNames /\ trace[p][i].failed

\* C22 as stated: after any invocation whose pipeline run for D succeeds, the
\* counter store holds no scrape_retry:D entry.
C22_CounterGoneAfterSuccess ==
    \A p \in Procs : PipelineSucceeded(p) => ~CounterLive(date[p])

\* C22: after a non-overlapping invocation whose pipeline run for D succeeds
\* and whose counter read and counter delete (if issued) did not fail, the
\* store holds no live scrape_retry:D entry; when the read or the delete
\* failed, an entry the store held when the invocation began is still there.
C22_CounterGoneAfterCleanSuccess ==
    \A p \in Procs :
        PipelineSucceeded(p) =>
            /\ ~KvCallFailed(p) => ~CounterLive(date[p])
            /\ (KvCallFailed(p) /\ retryCount[p] = 0
                    /\ kv[RetryKey(date[p])].present
                    /\ kv[RetryKey(date[p])].writtenAt <= invokedAt[p])
               => NoOpIn(trace[p], {"kv.put", "kv.delete"})
            /\ HasFailed(p, "kv.delete") => kv[RetryKey(date[p])].present

\* A recovery whose delete went through: the counter read was 1 and is gone.
C22_Witness ==
    \E p \in Procs :
        /\ PipelineSucceeded(p)
        /\ retryCount[p] > 0
        /\ ~KvCallFailed(p)
        /\ Has(p, "kv.delete")
        /\ ~CounterLive(date[p])

\* ---------------------------------------------------------------- C23
\* C23: when the counter put or delete fails, the invocation does not throw:
\* it returns the pipeline's result with attempt = c + 1 and
\* recovered = (success and c > 0), the values it returns when the call goes
\* through, and the store keeps what it held.
C23_CounterWriteFailureIsNonFatal ==
    [][\A p \in Procs :
        ((Leaves(p, "clearRetryCount") \/ Leaves(p, "setRetryCount"))
            /\ Last(trace'[p]).failed)
        => /\ pc'[p] = "done"
           /\ Last(trace'[p]).op =
                 (IF pres[p].success THEN "kv.delete" ELSE "kv.put")
           /\ \A f \in DOMAIN pres[p] \ {"skipped", "attempt", "recovered"} :
                 result'[p][f] = pres[p][f]
           /\ ~result'[p].skipped
           /\ result'[p].attempt = retryCount[p] + 1
           /\ result'[p].recovered = (pres[p].success /\ retryCount[p] > 0)
           /\ kv' = kv]_vars

\* A second failed run returned attempt 2 although its counter put threw.
C23_Witness ==
    \E p \in Procs :
        /\ pc[p] = "done"
        /\ Last(trace[p]).op = "kv.put"
        /\ Last(trace[p]).failed
        /\ ~result[p].success
        /\ result[p].attempt = 2

\* ---------------------------------------------------------------- C24
\* C24: nothing serialises the counter's read-modify-write.  A counter read
\* returns the stored count also while another invocation for the same date
\* that read the same count is still between its read and its write, and it
\* then enters the pipeline; a counter put stores the putter's own read plus
\* one, whatever the store holds by then.  So two overlapping invocations can
\* both read c, both run the pipeline and both put c+1 (C24_Witness).
C24_CounterIsNotSerialised ==
    [][\A p \in Procs :
        /\ (Leaves(p, "getRetryCount") /\ ~Last(trace'[p]).failed)
           => /\ retryCount'[p] = getRetryCount(kv, date[p], now)
              /\ retryCount'[p] < MAX_RETRIES => pc'[p] = "randomDelay"
        /\ (Leaves(p, "setRetryCount") /\ ~Last(trace'[p]).failed)
           => /\ kv'[RetryKey(date[p])].value = ToString(retryCount[p] + 1)
              /\ retryCount[p] < MAX_RETRIES]_vars

\* Two overlapping invocations for one date both read 1, both ran the pipeline
\* and failed, both put 2: the store holds 2 after three failed runs (the one
\* that stored 1, and these two), one more than MAX_RETRIES.
C24_Witness ==
    \E p, q \in Procs :
        /\ p # q
        /\ date[p] = date[q]
        /\ \A r \in {p, q} :
              /\ pc[r] = "done"
              /\ retryCount[r] = 1
              /\ ~result[r].skipped
              /\ ~result[r].success
              /\ result[r].attempt = MAX_RETRIES
              /\ Has(r, "kv.put")
              /\ ~HasFailed(r, "kv.put")
        /\ kv[RetryKey(date[p])].value = "2"

\* ---------------------------------------------------------------- C25
\* the keys of the batch p is about to send
BatchRows(p) == {Row(repos[p][i], pdate[p]) : i \in 1..Len(repos[p])}

\* C25: storage is last-write-wins per upsert key across pipeline runs in any
\* order or overlap.  Each batch that commits leaves, for every key it writes,
\* exactly one row, carrying the batch's values (its last record for the key);
\* rows of keys it does not write stay as they are and no other row appears.
\* Hence, when all batches have completed, a key holds the values of the batch
\* that committed last for it, and a key written by one run only is present.
C25_LastWriteWins ==
    [][\A p \in Procs :
        (Leaves(p, "persistRepos") /\ pres'[p].success)
        => LET batch == BatchRows(p)
               written == {r \in archive' : \E b \in batch : SameKey(r, b)}
               others == {r \in archive : \A b \in batch : ~SameKey(r, b)}
           IN  /\ archive' = written \cup others
               /\ \A b \in batch :
                     \E i \in 1..Len(repos[p]) :
                        /\ SameKey(Row(repos[p][i], pdate[p]), b)
                        /\ \A j \in (i + 1)..Len(repos[p]) :
                              ~SameKey(Row(repos[p][j], pdate[p]), b)
                        /\ {r \in archive' : SameKey(r, b)}
                              = {Row(repos[p][i], pdate[p])}]_vars

\* Two runs for one date have both committed: one wrote o/a and o/b with 1
\* star, the other o/a with 2 stars and committed last; o/a holds 2, o/b stays.
C25_Witness ==
    \E p, q \in Procs :
        /\ p # q
        /\ pc[p] = "done" /\ pc[q] = "done"
        /\ pres[p].success /\ pres[q].success
        /\ pres[p].date = pres[q].date
        /\ pres[p].repoCount = 2
        /\ pres[q].repoCount = 1
        /\ archive = { [repo_owner |-> "o", repo_name |-> "a", total_stars |-> 2,
                        stars_today |-> 2, trending_date |-> pres[p].date],
                       [repo_owner |-> "o", repo_name |-> "b", total_stars |-> 1,
                        stars_today |-> 1, trending_date |-> pres[p].date] }

\* ---------------------------------------------------------------- C26
ArchiveKeys(db) == {<<r.repo_owner, r.repo_name, r.trending_date>> : r \in db}

\* C26: no step of a retry-controller invocation, a pipeline run or an
\* aggregation query removes a (repo_owner, repo_name, trending_date) key from
\* the archive: the set of keys only grows.
C26_ArchiveKeysOnlyGrow ==
    [][ArchiveKeys(archive) \subseteq ArchiveKeys(archive')]_vars

\* After a run stored o/a and o/b for a day, a later run for that day stored
\* o/a alone with new values and a weekly query was answered: o/b is still there.
C26_Witness ==
    /\ call.fn = "getWeeklyTrendingRepos"
    /\ \E d \in Days :
          /\ [repo_owner |-> "o", repo_name |-> "a", total_stars |-> 2,
              stars_today |-> 2, trending_date |-> d] \in archive
          /\ <<"o", "b", d>> \in ArchiveKeys(archive)

\* ---------------------------------------------------------------- C27
\* C27: when the storage batch throws, persistRepos fails with
\* 'D1 persistence failed: <original message>', the pipeline reports that
\* message with errorType persist_error (success false, no rows written), and
\* the archive is as it was before the batch: it holds none of the batch's rows
\* that it did not hold already.
C27_BatchFailureIsAtomicAndTyped ==
    [][\A p \in Procs :
        (Leaves(p, "persistRepos") /\ Last(trace'[p]).op = "db.batch"
            /\ Last(trace'[p]).failed)
        => /\ Last(trace'[p]).value \in BatchErrors
           /\ ~pres'[p].success
           /\ pres'[p].error = "D1 persistence failed: " \o Last(trace'[p]).value
           /\ pres'[p].errorType = "persist_error"
           /\ pres'[p].rowsWritten = 0
           /\ pres'[p].repoCount = 0
           /\ archive' = archive
           /\ pc'[p] = IF kind[p] = "retry" THEN "setRetryCount" ELSE "done"]_vars

\* A scheduled run's batch of two rows threw a non-Error value: the run
\* reports it as persist_error and the archive is still empty.
C27_Witness ==
    \E p \in Procs :
        /\ pc[p] = "setRetryCount"
        /\ Last(trace[p]).op = "db.batch"
        /\ Last(trace[p]).n = 2
        /\ pres[p].error = "D1 persistence failed: unknown failure"
        /\ pres[p].errorType = "persist_error"
        /\ archive = {}

\* ---------------------------------------------------------------- C28
\* the statements of the answered call whose result satisfies `counted`
\* and reports k changes
Reporting(k, counted(_)) ==
    Cardinality({i \in 1..Len(call.results) :
                    counted(call.results[i]) /\ call.results[i].changes = <<k>>})

\* C28: persistRepos returns the sum of the changes counts of the statements
\* reported successful, a missing count being 0; the result lies between 0 and
\* the total of the changes reported and counts no failed statement.
C28_RowsWrittenCountsSuccessfulChanges ==
    (call.fn = "persistRepos" /\ ~call.threw) =>
        LET ok(res) == res.success
            any(res) == TRUE
            successful == Reporting(1, ok) + 2 * Reporting(2, ok)
            total == Reporting(1, any) + 2 * Reporting(2, any)
        IN  /\ call.rowsWritten = successful
            /\ 0 <= call.rowsWritten
            /\ call.rowsWritten <= total

\* Two statements: one successful with 2 changes, one failed with 1: returns 2.
C28_Witness ==
    /\ call.fn = "persistRepos"
    /\ call.results = << D1Result(TRUE, <<2>>), D1Result(FALSE, <<1>>) >>
    /\ call.rowsWritten = 2

\* ---------------------------------------------------------------- C29
\* C29: persistRepos with an empty list returns 0, prepares no statement and
\* sends no batch, so it cannot fail on the batch and leaves the archive as it is.
C29_EmptyListIsNoOp ==
    [][(call'.fn = "persistRepos" /\ call'.repos = <<>>)
       => /\ call'.rowsWritten = 0
          /\ ~call'.threw
          /\ call'.statements = 0
          /\ call'.batches = 0
          /\ archive' = archive]_vars

\* An empty list was persisted on a database whose batch would have rejected:
\* 0 was returned and the rows stored before are still there.
C29_Witness ==
    /\ call.fn = "persistRepos"
    /\ call.repos = <<>>
    /\ call.batchFails
    /\ call.rowsWritten = 0
    /\ ~call.threw
    /\ archive # {}

\* ---------------------------------------------------------------- C30
\* parseRepoName cannot derive the row's identity
Unidentifiable(row) ==
    \/ row.heading = "none"
    \/ row.heading = "no-href"
    \/ Len(row.href) < 2

\* C30: one row without a heading link, without an href, or with an href of
\* fewer than two path segments aborts the whole parse: parseTrendingPage throws
\* that row's error and returns no record, however many other rows are
\* well-formed.
C30_OneBadRowAbortsTheParse ==
    (ParsedPage /\ \E i \in 1..Len(call.arg) : Unidentifiable(call.arg[i]))
    => /\ call.ret.threw
       /\ call.ret.repos = <<>>
       /\ \E i \in 1..Len(call.arg) :
             /\ Unidentifiable(call.arg[i])
             /\ \A k \in 1..(i - 1) : ~Unidentifiable(call.arg[k])
             /\ call.ret.error =
                   (IF call.arg[i].heading = "none"
                    THEN "Failed to parse repo: missing heading link"
                    ELSE IF call.arg[i].heading = "no-href"
                    THEN "Failed to parse repo: heading link has no href"
                    ELSE "Failed to parse repo name from href: /" \o call.arg[i].href[1])

\* A well-formed row followed by a row without a heading link: no record.
C30_Witness ==
    /\ ParsedPage
    /\ Len(call.arg) = 2
    /\ ~Unidentifiable(call.arg[1])
    /\ call.arg[2].heading = "none"
    /\ call.ret.threw
    /\ call.ret.repos = <<>>

\* ---------------------------------------------------------------- C31
\* C31: with a positive total, each bucket's tenths are floor(count*1000/total)
\* or one more; exactly 1000 minus the sum of the floors buckets get the extra
\* tenth, and a bucket that gets it has a fractional remainder at least as large
\* as every bucket that does not.
C31_LargestRemainder ==
    (Applied /\ SumCounts(call.arg) > 0) =>
        LET total == SumCounts(call.arg)
            n == Len(call.arg)
            floor(i) == (call.arg[i].count * 1000) \div total
            rem(i) == (call.arg[i].count * 1000) - floor(i) * total
            extra == {i \in 1..n : call.ret[i].tenths = floor(i) + 1}
            plain == {i \in 1..n : call.ret[i].tenths = floor(i)}
            RECURSIVE Floors(_)
            Floors(i) == IF i = 0 THEN 0 ELSE floor(i) + Floors(i - 1)
        IN  /\ Len(call.ret) = n
            /\ extra \cup plain = 1..n
            /\ Cardinality(extra) = 1000 - Floors(n)
            /\ \A i \in extra, j \in plain : rem(i) >= rem(j)

\* Counts 1, 5, 1 of 7: floors 142, 714, 142 leave two tenths, which go to the
\* two buckets with remainder 6/7 and not to the one with 2/7.
C31_Witness ==
    /\ Applied
    /\ Len(call.arg) = 3
    /\ call.arg[1].count = 1 /\ call.arg[2].count = 5 /\ call.arg[3].count = 1
    /\ call.ret[1].tenths = 143
    /\ call.ret[2].tenths = 714
    /\ call.ret[3].tenths = 143

\* ---------------------------------------------------------------- C32
\* C32: when the per-date query answers, getTrendingReposWithStreaks goes
\* through its three enrichments whichever of their queries fail: an enrichment
\* whose query failed leaves the list as it was, every other enrichment applies
\* what its query answered, and the call returns the date's list after the
\* third, when each of the three has either failed or been applied.  Only a
\* failing per-date query fails the read.
C32_EnrichmentsAreIndependent ==
    [][(call' # call /\ AtTrending({"getTrendingRepos"} \cup Enrichments)) =>
          LET c == call
              d == call'
          IN  /\ c.step = "getTrendingRepos" =>
                    IF d.threw THEN d.done /\ d.repos = <<>>
                    ELSE /\ ~d.done
                         /\ d.step = "calculateStreaks"
                         /\ d.repos \in getTrendingRepos(archive, c.date)
              /\ c.step \in Enrichments =>
                    /\ ~d.threw
                    /\ Len(d.repos) = Len(c.repos)
                    /\ \A i \in 1..Len(c.repos) : RepoKey(d.repos[i]) = RepoKey(c.repos[i])
                    /\ c.step \in d.failed => d.repos = c.repos
                    /\ c.step \notin d.failed =>
                          d.repos = Enrich(c.step, archive, c.date, c.repos)
                    /\ d.done <=> c.step = "fetchStarHistory"
                    /\ d.done => \A e \in Enrichments : e \in d.failed \/ e \in d.applied]_vars

\* The new-entry query failed, between the two others: the repos carry a streak
\* and a star history and no new-entry flag.
C32_Witness ==
    /\ call.fn = "getTrendingReposWithStreaks"
    /\ call.done
    /\ ~call.threw
    /\ call.failed = {"detectNewEntries"}
    /\ \E i \in 1..Len(call.repos) :
          /\ call.repos[i].streak # <<>>
          /\ call.repos[i].is_new_entry = <<>>
          /\ call.repos[i].star_history # <<>>

\* ---------------------------------------------------------------- C33
Outstanding(c) == {k \in 1..c.n : c.request[k] = "outstanding"}

\* C33: topic enrichment works through the records in consecutive batches of
\* 4.  At most 4 requests are outstanding; they belong to one batch, every
\* record before that batch has settled and none after it was sent; a request
\* that fails leaves the other requests as they are; no record is sent twice,
\* and on return every record was sent once and has topics (empty on failure).
C33_TopicBatchesOfFour ==
    [][call'.fn = "enrichReposWithTopics" =>
        LET c == call'
            out == Outstanding(c)
        IN  /\ Cardinality(out) <= 4
            /\ c.i % 4 = 0
            /\ \A k \in out : c.i < k /\ k <= c.i + 4
            /\ \A k \in 1..c.n :
                  /\ c.sent[k] <= 1
                  /\ k <= c.i => c.request[k] \in {"fulfilled", "rejected"}
                  /\ k > c.i + 4 => c.request[k] = "unsent" /\ c.sent[k] = 0
                  /\ c.request[k] = "rejected" => c.topics[k] = "empty"
                  /\ c.request[k] = "fulfilled" => c.topics[k] = "some"
            /\ \A k \in 1..c.n :
                  (call.request[k] = "outstanding" /\ c.request[k] = "rejected")
                  => \A j \in (1..c.n) \ {k} : c.request[j] = call.request[j]
            /\ c.done =>
                  /\ \A k \in 1..c.n : c.sent[k] = 1 /\ c.topics[k] \in {"some", "empty"}
                  /\ c.failedCount = Cardinality({k \in 1..c.n : c.request[k] = "rejected"})]_vars

\* Five records: the first batch of four has settled with one failure, the
\* fifth request is outstanding alone.
C33_Witness ==
    /\ call.fn = "enrichReposWithTopics"
    /\ call.n = 5
    /\ call.i = 4
    /\ Outstanding(call) = {5}
    /\ call.request[2] = "rejected"
    /\ call.topics[2] = "empty"
    /\ \A k \in {1, 3, 4} : call.request[k] = "fulfilled"

\* ---------------------------------------------------------------- C34
\* C34: every outbound request of a pipeline run carries a timeout, so the run
\* never waits for a remote end for ever: whatever the remote ends do, it gets
\* to its end, done or failed, or at least to the write of its rows, where
\* what it waits for is its own database.
C34_RunAlwaysEnds ==
    <>(call.fn = "runScrapePipeline" /\ (call.done \/ call.batch = "outstanding"))

\* The trending-page request alone is bounded by its abort timer.
C34_FetchStageEnds ==
    (call.fn = "runScrapePipeline" /\ call.stage = "fetch")
    ~> (call.fn = "runScrapePipeline" /\ call.stage # "fetch")

\* ---------------------------------------------------------------- C35
CounterSteps == {"getRetryCount", "setRetryCount", "clearRetryCount"}

\* C35: ownership of state.  A finished aggregation query (daily listing with
\* streaks, new entries and star history; weekly aggregate) has left the
\* archive and the retry counters as they were; the archive changes only in a
\* step of a pipeline's persist stage; the retry counters change only in the
\* counter bookkeeping of runScrapeWithRetry, and a run of the pipeline that
\* was not started by runScrapeWithRetry never gets to that bookkeeping.
C35_OwnershipOfState ==
    [][/\ call' # call => archive' = archive /\ kv' = kv
       /\ archive' # archive =>
             \E p \in Procs : pc[p] = "persistRepos" /\ pc'[p] # "persistRepos"
       /\ kv' # kv =>
             \E p \in Procs : /\ kind[p] = "retry"
                              /\ pc[p] \in {"setRetryCount", "clearRetryCount"}
                              /\ pc'[p] = "done"
       /\ \A p \in Procs : pc'[p] \in CounterSteps => kind'[p] = "retry"]_vars

\* A query answered between a failed scheduled run, which left a counter, and
\* later runs: rows and counter are there, the query has seen the rows.
C35_Witness ==
    /\ call.fn = "getTrendingReposWithStreaks"
    /\ call.done
    /\ ~call.threw
    /\ Len(call.repos) > 0
    /\ archive # {}
    /\ \E k \in KvKeys : kv[k].present

\* ---------------------------------------------------------------- C36
ReadHandlers ==
    {"GET /api/trending", "GET /api/languages", "GET /api/trending/week",
     "GET /api/languages/week"}

\* The list a cached or returned body carries.
ListOf(key, body) == IF key \in WeekKeys THEN body.repos ELSE body

\* The bodies the handler at its query builds from what the database holds.
FromDatabase(c) ==
    LET weekStart == getMondayOfWeek(c.param)
        weekEnd == getSundayOfWeek(weekStart)
    IN  CASE c.fn = "GET /api/trending/week" ->
                {WeekBody(weekStart, weekEnd, c.today, r) :
                    r \in {x \in getWeeklyTrendingRepos(archive, weekStart, weekEnd, TRUE) :
                              ~x.threw}}
          [] c.fn = "GET /api/languages/week" ->
                getWeeklyLanguageDistribution(archive, weekStart, weekEnd)
          [] c.fn = "GET /api/trending" -> getTrendingRepos(archive, c.param)
          [] c.fn = "GET /api/languages" -> getLanguageDistribution(archive, c.param)

SameEntry(k) ==
    /\ kv'[k].present = kv[k].present
    /\ kv'[k].writtenAt = kv[k].writtenAt
    /\ kv'[k].expiresAt = kv[k].expiresAt
    /\ kv[k].present => kv'[k].value = kv[k].value

\* C36: the read handlers' cache is read-through.  On a hit the cached body is
\* returned, the database is not queried and the cache stays as it is.  On a
\* miss the database is queried and its result returned; the result is put
\* under the request's key only if it is not empty, and nothing else is put.
\* So no entry of the cache holds an empty result, and after an empty answer
\* the key is still missing: the next request asks the database again.
C36_ReadThroughCache ==
    [][(call' # call /\ ~call.done /\ call.fn \in ReadHandlers) =>
          LET c == call
              d == call'
              key == c.cacheKey
          IN  /\ c.step = "kv.get" =>
                    /\ \A k \in DOMAIN kv : SameEntry(k)
                    /\ ~d.threw =>
                          IF KvLive(kv, key, now)
                          THEN /\ d.done /\ d.status = 200 /\ d.cacheHit /\ ~d.queried
                               /\ d.body = kv[key].value
                          ELSE ~d.done /\ d.step = "query"
              /\ c.step = "query" =>
                    /\ \A k \in DOMAIN kv : SameEntry(k)
                    /\ d.queried /\ ~d.cacheHit
                    /\ d.status # 500 =>
                          /\ d.body \in FromDatabase(c)
                          /\ d.done <=> Len(ListOf(key, d.body)) = 0
                          /\ d.done => d.status = 200 /\ ~KvLive(kv', key, now)
              /\ c.step = "kv.put" =>
                    /\ d.done /\ d.status = 200 /\ d.queried /\ ~d.cacheHit
                    /\ d.body = c.body
                    /\ \A k \in DOMAIN kv \ {key} : SameEntry(k)
                    /\ ~SameEntry(key) => KvLive(kv', key, now) /\ kv'[key].value = d.body
              /\ \A k \in DOMAIN kv :
                    kv'[k].present => Len(ListOf(k, kv'[k].value)) > 0]_vars

\* Today's listing was asked for and missed the cache; the rows persisted by
\* then are in the answer, which is now the cached body.
C36_Witness ==
    /\ call.fn = "GET /api/trending"
    /\ call.status = 200
    /\ ~call.cacheHit
    /\ call.param = todayUTC(now)
    /\ Len(call.body) > 0
    /\ call.body \in getTrendingRepos(archive, call.param)
    /\ KvLive(kv, call.cacheKey, now)
    /\ kv[call.cacheKey].value = call.body
    /\ ~kv[LanguagesKey(call.param)].present

\* ---------------------------------------------------------------- C37
\* C37: the store starts without counters and only runScrapeWithRetry writes
\* them; then a stored counter, whenever there is one, is the integer 1 or 2,
\* however the invocations for its date follow or overlap each other.
C37_StoredCounterIsOneOrTwo ==
    \A d \in Days :
        kv[RetryKey(d)].present =>
            /\ IsNumeric(kv[RetryKey(d)].value)
            /\ Number(kv[RetryKey(d)].value) \in 1..2

\* Two invocations for one date overlap; the counter stands at 2 and the later
\* one, which read it as 1, is about to write its own attempt.
C37_Witness ==
    \E d \in Days, p \in Procs, q \in Procs :
        /\ p # q
        /\ kv[RetryKey(d)].present
        /\ kv[RetryKey(d)].value = "2"
        /\ date[p] = d /\ date[q] = d
        /\ pc[p] = "done"
        /\ pc[q] = "setRetryCount"
        /\ retryCount[q] = 1

\* ---------------------------------------------------------------- C38
\* C38: a pipeline run for a date that returns success = true leaves at least
\* one row of that date in the archive; rows of a date never all disappear; and
\* an invocation of runScrapeWithRetry that finds a row of its date returns
\* skipped with already_has_data.  So the invocation after a successful run is
\* that skip.
C38_SuccessMakesTheNextRunSkip ==
    [][\A p \in Procs :
          /\ (pc[p] = "persistRepos" /\ pc'[p] # "persistRepos" /\ pres'[p].success)
             => hasDataForDate(archive', pdate[p])
          /\ \A d \in Days : hasDataForDate(archive, d) => hasDataForDate(archive', d)
          /\ (/\ pc[p] = "hasDataForDate"
              /\ pc'[p] \notin {"hasDataForDate", "threw"}
              /\ hasDataForDate(archive, date[p]))
             => /\ pc'[p] = "done"
                /\ result'[p].skipped
                /\ result'[p].skipReason = "already_has_data"
                /\ result'[p].success]_vars

\* The skip of an invocation that follows a successful run for its date.
C38_Witness ==
    \E p \in Procs :
        /\ kind[p] = "retry"
        /\ pc[p] = "done"
        /\ result[p].skipped
        /\ result[p].skipReason = "already_has_data"
        /\ hasDataForDate(archive, date[p])
        /\ trace[p] # <<>>

\* ---------------------------------------------------------------- C39
StoredCount(d) == getRetryCount(kv, d, now)

PipelineEnds(p) ==
    /\ kind[p] = "retry"
    /\ pc[p] \in {"randomDelay", "fetchTrendingPage", "parseTrendingPage",
                  "enrichReposWithTopics", "persistRepos"}
    /\ pc'[p] \in {"setRetryCount", "clearRetryCount", "done"}

\* C39: invocations for one date follow each other, the counter store answers
\* every call and keeps its keys.  Then the stored counter is the number of
\* pipeline runs for the date that failed so far: a run that fails started with
\* no row of the date and a counter c < 2 in the store and leaves c + 1 there;
\* a run that succeeds started with no row and leaves one; nothing else moves
\* the counter but the delete after a success.  An invocation that finds a row,
\* or the counter at 2, returns a skip and starts no run.  So at most 2 runs
\* fail, at most one succeeds, and from then on every invocation that returns
\* is a skip.
C39_AtMostTwoFailuresOneSuccess ==
    [][/\ (\A p \in Procs : pc[p] \notin {"setRetryCount", "clearRetryCount"}) =>
             \A k \in KvKeys : kv'[k] = kv[k]
       /\ \A p \in Procs :
          LET d == date[p]
          IN  /\ (PipelineEnds(p) /\ ~pres'[p].success) =>
                    /\ ~hasDataForDate(archive, d)
                    /\ StoredCount(d) = retryCount[p]
                    /\ retryCount[p] < 2
                    /\ pc'[p] = "setRetryCount"
              /\ (pc[p] = "setRetryCount" /\ pc'[p] = "done") =>
                    /\ getRetryCount(kv', d, now) = StoredCount(d) + 1
                    /\ getRetryCount(kv', d, now) <= 2
              /\ (PipelineEnds(p) /\ pres'[p].success) =>
                    /\ ~hasDataForDate(archive, d)
                    /\ hasDataForDate(archive', d)
              /\ pc[p] = "clearRetryCount" => hasDataForDate(archive, d)
              /\ (pc[p] \in {"hasDataForDate", "getRetryCount"} /\ pc'[p] = "randomDelay") =>
                    ~hasDataForDate(archive, d) /\ StoredCount(d) < 2
              /\ (/\ kind[p] = "retry"
                  /\ pc'[p] = "done" /\ pc[p] # "done"
                  /\ hasDataForDate(archive, d) \/ StoredCount(d) >= 2
                  /\ ~PipelineEnds(p) /\ pc[p] \notin {"setRetryCount", "clearRetryCount"}) =>
                    /\ result'[p].skipped
                    /\ result'[p].skipReason \in {"already_has_data", "max_retries_exceeded"}]_vars

\* The third invocation for a date whose two runs failed: a skip, the counter at 2.
C39_Witness ==
    \E p \in Procs :
        /\ pc[p] = "done"
        /\ result[p].skipped
        /\ result[p].skipReason = "max_retries_exceeded"
        /\ StoredCount(date[p]) = 2
        /\ ~hasDataForDate(archive, date[p])

\* ---------------------------------------------------------------- C40
\* C40: when the has-data query fails, runScrapeWithRetry throws: it has made
\* that one call only, no counter read or write and no pipeline stage, archive
\* and counters are as they were, and nothing follows in the invocation.  The
\* cron endpoint answers the exception with 500 and 'Internal scrape error'.
C40_HasDataFailurePropagates ==
    [][\A p \in Procs :
          /\ pc'[p] = "threw" =>
                /\ trace'[p] = <<Call("db.first", TRUE)>>
                /\ result'[p] = NoResult
                /\ archive' = archive
                /\ kv' = kv
          /\ pc[p] = "threw" => pc'[p] \in {"threw", "idle"}
          /\ (pc[p] = "threw" /\ call' # call) =>
                /\ call'.fn = "GET /api/cron"
                /\ call'.done
                /\ call'.threw
                /\ call'.status = 500
                /\ call'.error = "Internal scrape error"]_vars

\* The endpoint has answered a has-data failure while a counter for the date
\* is in the store.
C40_Witness ==
    \E p \in Procs :
        /\ pc[p] = "threw"
        /\ call.fn = "GET /api/cron"
        /\ call.done
        /\ call.threw
        /\ call.status = 500
        /\ call.error = "Internal scrape error"
        /\ kv[RetryKey(date[p])].present

====
